---- MODULE Spec2Model ----
(***************************************************************************)
(* SHIELD SQL-injection detection engine                                   *)
(* (src/backend/app/services/sql_injection_detector.py).                   *)
(*                                                                         *)
(* A Python str is a sequence of one-character strings.  Real numbers are  *)
(* fixed point: a confidence is in hundredths (0.95 is 95, 1.0 is 100),    *)
(* the real-valued feature slots are in thousandths.                       *)
(***************************************************************************)
EXTENDS Integers, Sequences, FiniteSets, TLC

\* ------------------------------------------------------------------------
\* Characters and the str methods the code uses

LOWERCASE == <<"a","b","c","d","e","f","g","h","i","j","k","l","m","n","o","p","q","r","s","t","u","v","w","x","y","z">>

UPPERCASE == <<"A","B","C","D","E","F","G","H","I","J","K","L","M","N","O","P","Q","R","S","T","U","V","W","X","Y","Z">>

LowerSet == {LOWERCASE[i] : i \in 1..Len(LOWERCASE)}

UpperSet == {UPPERCASE[i] : i \in 1..Len(UPPERCASE)}

DigitSet == {"0","1","2","3","4","5","6","7","8","9"}

SpaceSet == {" ", "\t", "\n", "\r"}

HexLowerSet == DigitSet \cup {"a","b","c","d","e","f"}

HexSet == HexLowerSet \cup {"A","B","C","D","E","F"}

WordSet == LowerSet \cup UpperSet \cup DigitSet \cup {"_"}

ToLowerMap == [c \in UpperSet |-> LOWERCASE[CHOOSE i \in 1..Len(UPPERCASE) : UPPERCASE[i] = c]]

\* str.lower() on one character
LowerChar(c) == IF c \in UpperSet THEN ToLowerMap[c] ELSE c

\* str.lower()
Lower(s) == [i \in 1..Len(s) |-> LowerChar(s[i])]

isalpha(c) == c \in LowerSet \cup UpperSet

isdigit(c) == c \in DigitSet

isspace(c) == c \in SpaceSet

isalnum(c) == isalpha(c) \/ isdigit(c)

Min(S) == CHOOSE x \in S : \A y \in S : x <= y

Max(S) == CHOOSE x \in S : \A y \in S : x >= y

\* sub occurs in s at position i
OccursAt(s, sub, i) == /\ i + Len(sub) - 1 <= Len(s)
                       /\ \A k \in 1..Len(sub) : s[i + k - 1] = sub[k]

\* the positions where sub occurs in s
Occurrences(s, sub) == {i \in 1..(Len(s) - Len(sub) + 1) : OccursAt(s, sub, i)}

\* `sub in s`
Contains(s, sub) == Occurrences(s, sub) # {}

RECURSIVE CountFrom(_, _, _)
\* the non-overlapping occurrences, left to right, among the positions occ that are >= i
CountFrom(occ, n, i) == LET rest == {p \in occ : p >= i}
                        IN  IF rest = {} THEN 0 ELSE 1 + CountFrom(rest, n, Min(rest) + n)

\* s.count(sub): the number of non-overlapping occurrences of sub in s
StrCount(s, sub) == IF Len(sub) = 1 THEN Cardinality(Occurrences(s, sub))
                    ELSE CountFrom(Occurrences(s, sub), Len(sub), 1)

\* s.count(c) for one character
CharCount(s, c) == Cardinality({i \in 1..Len(s) : s[i] = c})

\* ------------------------------------------------------------------------
\* Regular expressions (module re): a pattern is a tree,  Ends  lists the
\* positions where a match starting at i may end, in the order in which the
\* backtracking matcher tries them; the match re finds is the first.

NoFlags == [ic |-> FALSE, ml |-> FALSE, dotall |-> FALSE]

IGNORECASE == [ic |-> TRUE, ml |-> FALSE, dotall |-> FALSE]

MULTILINE == [ic |-> FALSE, ml |-> TRUE, dotall |-> FALSE]

DOTALL == [ic |-> FALSE, ml |-> FALSE, dotall |-> TRUE]

\* a literal string
Str(x) == [t |-> "str", s |-> x]

\* one character of the set cs
In(cs) == [t |-> "in", cs |-> cs]

\* `.`
Dot == [t |-> "dot"]

\* `\b`
WordB == [t |-> "wb"]

\* `$`
Eos == [t |-> "eos"]

\* x* x+ x*? over a one-character pattern x: at least lo repetitions
Rep(x, lo, greedy) == [t |-> "rep", of |-> x, lo |-> lo, greedy |-> greedy]

Cat(rs) == [t |-> "cat", rs |-> rs]

Alt(rs) == [t |-> "alt", rs |-> rs]

\* whether the one-character pattern x matches the character c
ClassHas(x, c, f) == CASE x.t = "in"  -> (c \in x.cs \/ (f.ic /\ (LowerChar(c) \in x.cs)))
                       [] x.t = "dot" -> (f.dotall \/ c # "\n")
                       [] x.t = "str" -> (c = x.s[1] \/ (f.ic /\ LowerChar(c) = x.s[1]))

\* the end of the longest run of characters matching x that starts at i
RunEnd(x, s, i, f) == Min({j \in i..Len(s) : ~ClassHas(x, s[j], f)} \cup {Len(s) + 1})

IsWordAt(s, i) == i >= 1 /\ i <= Len(s) /\ s[i] \in WordSet

\* the sequence lo, lo+1, .., hi
Upto(lo, hi) == [k \in 1..(hi - lo + 1) |-> lo + k - 1]

\* the sequence hi, hi-1, .., lo
Downto(hi, lo) == [k \in 1..(hi - lo + 1) |-> hi - k + 1]

RECURSIVE Flatten(_)
Flatten(ss) == IF ss = <<>> THEN <<>> ELSE Head(ss) \o Flatten(Tail(ss))

RECURSIVE Ends(_, _, _, _)
RECURSIVE CatEnds(_, _, _, _, _)
CatEnds(rs, k, s, starts, f) ==
    IF k > Len(rs) \/ starts = <<>> THEN starts
    ELSE CatEnds(rs, k + 1, s, Flatten([j \in 1..Len(starts) |-> Ends(rs[k], s, starts[j], f)]), f)

Ends(r, s, i, f) ==
    CASE r.t = "str" -> IF /\ i + Len(r.s) - 1 <= Len(s)
                           /\ \A k \in 1..Len(r.s) :
                                 \/ s[i + k - 1] = r.s[k]
                                 \/ (f.ic /\ LowerChar(s[i + k - 1]) = r.s[k])
                        THEN <<i + Len(r.s)>> ELSE <<>>
      [] r.t \in {"in", "dot"} -> IF i <= Len(s) /\ ClassHas(r, s[i], f) THEN <<i + 1>> ELSE <<>>
      [] r.t = "wb"  -> IF IsWordAt(s, i - 1) # IsWordAt(s, i) THEN <<i>> ELSE <<>>
      [] r.t = "eos" -> IF \/ i = Len(s) + 1
                           \/ (i = Len(s) /\ s[i] = "\n")
                           \/ (f.ml /\ i <= Len(s) /\ s[i] = "\n")
                        THEN <<i>> ELSE <<>>
      [] r.t = "rep" -> LET e == RunEnd(r.of, s, i, f)
                        IN  IF e < i + r.lo THEN <<>>
                            ELSE IF r.greedy THEN Downto(e, i + r.lo) ELSE Upto(i + r.lo, e)
      [] r.t = "alt" -> Flatten([k \in 1..Len(r.rs) |-> Ends(r.rs[k], s, i, f)])
      [] r.t = "cat" -> CatEnds(r.rs, 1, s, <<i>>, f)

RECURSIVE FindFrom(_, _, _, _, _)
\* the matches re.findall collects from position i on: leftmost first, each
\* search resuming where the previous match ended (one further after an
\* empty match); cand holds the positions where some match starts
FindFrom(r, s, cand, i, f) ==
    LET rest == {p \in cand : p >= i}
    IN  IF rest = {} THEN 0
        ELSE LET p == Min(rest)
                 e == Ends(r, s, p, f)[1]
             IN  1 + FindFrom(r, s, rest, IF e > p THEN e ELSE p + 1, f)

\* len(re.findall(r, s, flags))
FindallCount(r, s, f) ==
    FindFrom(r, s, {p \in 1..(Len(s) + 1) : Ends(r, s, p, f) # <<>>}, 1, f)

\* re.compile: the tree of each pattern text the code uses
Compile(p) ==
    CASE p = "(\\bor\\b|\\band\\b)\\s*\\d+\\s*=\\s*\\d+" -> Cat(<<Alt(<<Cat(<<WordB, Str(<<"o","r">>), WordB>>), Cat(<<WordB, Str(<<"a","n","d">>), WordB>>)>>), Rep(In(SpaceSet), 0, TRUE), Rep(In(DigitSet), 1, TRUE), Rep(In(SpaceSet), 0, TRUE), Str(<<"=">>), Rep(In(SpaceSet), 0, TRUE), Rep(In(DigitSet), 1, TRUE)>>)
      [] p = "union\\s+select" -> Cat(<<Str(<<"u","n","i","o","n">>), Rep(In(SpaceSet), 1, TRUE), Str(<<"s","e","l","e","c","t">>)>>)
      [] p = "drop\\s+table" -> Cat(<<Str(<<"d","r","o","p">>), Rep(In(SpaceSet), 1, TRUE), Str(<<"t","a","b","l","e">>)>>)
      [] p = "exec\\s*\\(" -> Cat(<<Str(<<"e","x","e","c">>), Rep(In(SpaceSet), 0, TRUE), Str(<<"(">>)>>)
      [] p = "%[0-9a-f]{2}" -> Cat(<<Str(<<"%">>), In(HexLowerSet), In(HexLowerSet)>>)
      [] p = "0x[0-9a-f]+" -> Cat(<<Str(<<"0","x">>), Rep(In(HexLowerSet), 1, TRUE)>>)
      [] p = "--\\s*$" -> Cat(<<Str(<<"-","-">>), Rep(In(SpaceSet), 0, TRUE), Eos>>)
      [] p = "/\\*.*?\\*/" -> Cat(<<Str(<<"/","*">>), Rep(Dot, 0, FALSE), Str(<<"*","/">>)>>)
      [] p = "@@\\w+" -> Cat(<<Str(<<"@","@">>), Rep(In(WordSet), 1, TRUE)>>)
      [] p = "waitfor\\s+delay" -> Cat(<<Str(<<"w","a","i","t","f","o","r">>), Rep(In(SpaceSet), 1, TRUE), Str(<<"d","e","l","a","y">>)>>)
      [] p = "benchmark\\s*\\(" -> Cat(<<Str(<<"b","e","n","c","h","m","a","r","k">>), Rep(In(SpaceSet), 0, TRUE), Str(<<"(">>)>>)
      [] p = "pg_sleep\\s*\\(" -> Cat(<<Str(<<"p","g","_","s","l","e","e","p">>), Rep(In(SpaceSet), 0, TRUE), Str(<<"(">>)>>)
      [] p = "information_schema" -> Str(<<"i","n","f","o","r","m","a","t","i","o","n","_","s","c","h","e","m","a">>)
      [] p = "char\\s*\\(\\s*\\d+" -> Cat(<<Str(<<"c","h","a","r">>), Rep(In(SpaceSet), 0, TRUE), Str(<<"(">>), Rep(In(SpaceSet), 0, TRUE), Rep(In(DigitSet), 1, TRUE)>>)
      [] p = "ascii\\s*\\(" -> Cat(<<Str(<<"a","s","c","i","i">>), Rep(In(SpaceSet), 0, TRUE), Str(<<"(">>)>>)
      [] p = "substring\\s*\\(" -> Cat(<<Str(<<"s","u","b","s","t","r","i","n","g">>), Rep(In(SpaceSet), 0, TRUE), Str(<<"(">>)>>)
      [] p = "openrowset\\s*\\(" -> Cat(<<Str(<<"o","p","e","n","r","o","w","s","e","t">>), Rep(In(SpaceSet), 0, TRUE), Str(<<"(">>)>>)
      [] p = "bulk\\s+insert" -> Cat(<<Str(<<"b","u","l","k">>), Rep(In(SpaceSet), 1, TRUE), Str(<<"i","n","s","e","r","t">>)>>)
      [] p = "script\\s*>" -> Cat(<<Str(<<"s","c","r","i","p","t">>), Rep(In(SpaceSet), 0, TRUE), Str(<<">">>)>>)
      [] p = "<\\s*script" -> Cat(<<Str(<<"<">>), Rep(In(SpaceSet), 0, TRUE), Str(<<"s","c","r","i","p","t">>)>>)
      [] p = "javascript\\s*:" -> Cat(<<Str(<<"j","a","v","a","s","c","r","i","p","t">>), Rep(In(SpaceSet), 0, TRUE), Str(<<":">>)>>)
      [] p = "current_user" -> Str(<<"c","u","r","r","e","n","t","_","u","s","e","r">>)
      [] p = "session_user" -> Str(<<"s","e","s","s","i","o","n","_","u","s","e","r">>)
      [] p = "system_user" -> Str(<<"s","y","s","t","e","m","_","u","s","e","r">>)
      [] p = "host_name\\s*\\(" -> Cat(<<Str(<<"h","o","s","t","_","n","a","m","e">>), Rep(In(SpaceSet), 0, TRUE), Str(<<"(">>)>>)
      [] p = "db_name\\s*\\(" -> Cat(<<Str(<<"d","b","_","n","a","m","e">>), Rep(In(SpaceSet), 0, TRUE), Str(<<"(">>)>>)
      [] p = "@@version" -> Str(<<"@","@","v","e","r","s","i","o","n">>)
      [] p = "@@servername" -> Str(<<"@","@","s","e","r","v","e","r","n","a","m","e">>)
      [] p = "load_file\\s*\\(" -> Cat(<<Str(<<"l","o","a","d","_","f","i","l","e">>), Rep(In(SpaceSet), 0, TRUE), Str(<<"(">>)>>)
      [] p = "into\\s+outfile" -> Cat(<<Str(<<"i","n","t","o">>), Rep(In(SpaceSet), 1, TRUE), Str(<<"o","u","t","f","i","l","e">>)>>)
      [] p = "load\\s+data\\s+infile" -> Cat(<<Str(<<"l","o","a","d">>), Rep(In(SpaceSet), 1, TRUE), Str(<<"d","a","t","a">>), Rep(In(SpaceSet), 1, TRUE), Str(<<"i","n","f","i","l","e">>)>>)
      [] p = "grant\\s+" -> Cat(<<Str(<<"g","r","a","n","t">>), Rep(In(SpaceSet), 1, TRUE)>>)
      [] p = "revoke\\s+" -> Cat(<<Str(<<"r","e","v","o","k","e">>), Rep(In(SpaceSet), 1, TRUE)>>)
      [] p = "shutdown" -> Str(<<"s","h","u","t","d","o","w","n">>)
      [] p = "sp_password" -> Str(<<"s","p","_","p","a","s","s","w","o","r","d">>)
      [] p = "sp_helpdb" -> Str(<<"s","p","_","h","e","l","p","d","b">>)
      [] p = "kill\\s+\\d+" -> Cat(<<Str(<<"k","i","l","l">>), Rep(In(SpaceSet), 1, TRUE), Rep(In(DigitSet), 1, TRUE)>>)
      [] p = "cmdshell" -> Str(<<"c","m","d","s","h","e","l","l">>)
      [] p = "openrowset" -> Str(<<"o","p","e","n","r","o","w","s","e","t">>)
      [] p = "%[0-9a-fA-F]{2}" -> Cat(<<Str(<<"%">>), In(HexSet), In(HexSet)>>)
      [] p = "0x[0-9a-fA-F]+" -> Cat(<<Str(<<"0","x">>), Rep(In(HexSet), 1, TRUE)>>)
      [] p = "--.*$" -> Cat(<<Str(<<"-","-">>), Rep(Dot, 0, TRUE), Eos>>)
      [] p = "\\w+\\s*\\(" -> Cat(<<Rep(In(WordSet), 1, TRUE), Rep(In(SpaceSet), 0, TRUE), Str(<<"(">>)>>)

\* r'\b' + keyword + r'\b'
WordPattern(keyword) == Cat(<<WordB, Str(keyword), WordB>>)

\* ------------------------------------------------------------------------
\* FallbackSQLDetector

\* self.sql_keywords, in insertion order (the order a dict is iterated in)
Fallback_sql_keywords == <<
    [keyword |-> <<"u","n","i","o","n">>, weight |-> 5],
    [keyword |-> <<"d","r","o","p">>, weight |-> 10],
    [keyword |-> <<"d","e","l","e","t","e">>, weight |-> 6],
    [keyword |-> <<"e","x","e","c">>, weight |-> 8],
    [keyword |-> <<"e","x","e","c","u","t","e">>, weight |-> 8],
    [keyword |-> <<"i","n","s","e","r","t">>, weight |-> 4],
    [keyword |-> <<"u","p","d","a","t","e">>, weight |-> 4],
    [keyword |-> <<"s","e","l","e","c","t">>, weight |-> 3],
    [keyword |-> <<"c","r","e","a","t","e">>, weight |-> 5],
    [keyword |-> <<"a","l","t","e","r">>, weight |-> 6],
    [keyword |-> <<"d","e","c","l","a","r","e">>, weight |-> 6],
    [keyword |-> <<"c","a","s","t">>, weight |-> 4],
    [keyword |-> <<"c","o","n","v","e","r","t">>, weight |-> 4],
    [keyword |-> <<"i","n","f","o","r","m","a","t","i","o","n","_","s","c","h","e","m","a">>, weight |-> 10],
    [keyword |-> <<"s","y","s","o","b","j","e","c","t","s">>, weight |-> 8],
    [keyword |-> <<"s","y","s","c","o","l","u","m","n","s">>, weight |-> 8],
    [keyword |-> <<"m","y","s","q","l">>, weight |-> 5],
    [keyword |-> <<"v","e","r","s","i","o","n">>, weight |-> 4],
    [keyword |-> <<"d","a","t","a","b","a","s","e">>, weight |-> 4],
    [keyword |-> <<"u","s","e","r">>, weight |-> 3],
    [keyword |-> <<"c","o","n","c","a","t">>, weight |-> 5],
    [keyword |-> <<"s","u","b","s","t","r","i","n","g">>, weight |-> 4],
    [keyword |-> <<"w","a","i","t","f","o","r">>, weight |-> 8],
    [keyword |-> <<"b","e","n","c","h","m","a","r","k">>, weight |-> 8],
    [keyword |-> <<"p","g","_","s","l","e","e","p">>, weight |-> 8],
    [keyword |-> <<"l","o","a","d","_","f","i","l","e">>, weight |-> 10],
    [keyword |-> <<"i","n","t","o"," ","o","u","t","f","i","l","e">>, weight |-> 10],
    [keyword |-> <<"c","m","d","s","h","e","l","l">>, weight |-> 10],
    [keyword |-> <<"x","p","_">>, weight |-> 8],
    [keyword |-> <<"s","p","_">>, weight |-> 6]
  >>

\* self.attack_patterns
Fallback_attack_patterns == <<
    [pattern |-> "(\\bor\\b|\\band\\b)\\s*\\d+\\s*=\\s*\\d+", description |-> "1=1 attacks"],
    [pattern |-> "union\\s+select", description |-> "Union-based attacks"],
    [pattern |-> "drop\\s+table", description |-> "Table dropping"],
    [pattern |-> "exec\\s*\\(", description |-> "Code execution"],
    [pattern |-> "%[0-9a-f]{2}", description |-> "URL encoding"],
    [pattern |-> "0x[0-9a-f]+", description |-> "Hexadecimal"],
    [pattern |-> "--\\s*$", description |-> "SQL comments"],
    [pattern |-> "/\\*.*?\\*/", description |-> "Block comments"],
    [pattern |-> "@@\\w+", description |-> "System variables"],
    [pattern |-> "char\\s*\\(\\s*\\d+", description |-> "Character encoding"],
    [pattern |-> "waitfor\\s+delay", description |-> "Time-based attacks"],
    [pattern |-> "benchmark\\s*\\(", description |-> "MySQL benchmark"],
    [pattern |-> "load_file\\s*\\(", description |-> "File operations"],
    [pattern |-> "into\\s+outfile", description |-> "File writing"],
    [pattern |-> "cmdshell", description |-> "Command shell"],
    [pattern |-> "<\\s*script", description |-> "XSS patterns"],
    [pattern |-> "javascript\\s*:", description |-> "XSS patterns"],
    [pattern |-> "information_schema", description |-> "Information gathering"],
    [pattern |-> "current_user", description |-> "User functions"],
    [pattern |-> "openrowset", description |-> "Remote data access"],
    [pattern |-> "bulk\\s+insert", description |-> "Bulk operations"]
  >>

\* ------------------------------------------------------------------------
\* Python values: a query is a str or, since nothing checks the annotation,
\* any other object

PyStr(chars) == [type |-> "str", val |-> chars]

PyNone == [type |-> "NoneType", val |-> <<>>]

PyInt(digits) == [type |-> "int", val |-> digits]

PyList(items) == [type |-> "list", val |-> items]

\* isinstance(v, str)
IsStr(v) == v.type = "str"

\* bool(v)
Truthy(v) == CASE v.type = "str"      -> v.val # <<>>
               [] v.type = "NoneType" -> FALSE
               [] v.type = "int"      -> v.val # <<"0">>
               [] v.type = "list"     -> v.val # <<>>

RECURSIVE SumSeq(_)
\* sum(xs)
SumSeq(xs) == IF xs = <<>> THEN 0 ELSE Head(xs) + SumSeq(Tail(xs))

\* an entry of the indicators list: the text of the f-string and its arguments
Indicator(fmt, desc, arg, count) == [fmt |-> fmt, desc |-> desc, arg |-> arg, count |-> count]

\* suspicious_chars
suspicious_chars == << <<"'">>, <<"\"">>, <<";">>, <<"-","-">>, <<"/","*">>, <<"*","/">>, <<"%">>, <<"=">> >>

\* an imbalance that alone stays below the threshold of predict
QuoteImbalanceScore_Below == 15 - 1

\* a scorer that adds less for unbalanced quotes
QuoteImbalanceScore_Low == 15 - 5

\* the flat amount added for an odd number of single, or of double, quotes
QuoteImbalanceScore == 15

\* the amount added for each match of an attack pattern
PatternScore == 5

\* the amount added for each occurrence of a repeated suspicious token
RepeatScore == 2

\* the amount added for each function call when there are more than
\* FunctionCallLimit
FunctionCallScore == 2

\* a query longer than this is unusually long
LongQueryLength == 200

\* the flat amount added for an unusually long query
LongQueryScore == 10

\* more function calls than this are suspicious
FunctionCallLimit == 3

\* "Check SQL keywords with weights": for each keyword of the table, the
\* number of occurrences counted (0 when `keyword in query_lower` is false)
KeywordCounts(query_lower) ==
    [k \in 1..Len(Fallback_sql_keywords) |->
        IF Contains(query_lower, Fallback_sql_keywords[k].keyword)
        THEN StrCount(query_lower, Fallback_sql_keywords[k].keyword) ELSE 0]

\* "Check attack patterns": the matches of each pattern of the table
PatternMatches(query_lower) ==
    [k \in 1..Len(Fallback_attack_patterns) |->
        FindallCount(Compile(Fallback_attack_patterns[k].pattern), query_lower, IGNORECASE)]

\* "Character-based indicators": query.count(char) for each suspicious token
SuspiciousCounts(query) ==
    [k \in 1..Len(suspicious_chars) |-> StrCount(query, suspicious_chars[k])]

\* the entries of xs (a sequence of [hit, add, ind]) that are hits
Hits(xs) == SelectSeq(xs, LAMBDA x : x.hit)

\* the steps of the keyword loop: [hit, add, ind] says whether the step's
\* condition held, what it adds to risk_score and the indicator it appends
KeywordSteps(kc) ==
    [k \in 1..Len(Fallback_sql_keywords) |->
        [hit |-> kc[k] > 0,
         add |-> kc[k] * Fallback_sql_keywords[k].weight,
         ind |-> Indicator("SQL keyword '{keyword}' found {count} time(s)", "",
                           Fallback_sql_keywords[k].keyword, kc[k])]]

\* the steps of the pattern loop
PatternSteps(pm) ==
    [k \in 1..Len(Fallback_attack_patterns) |->
        [hit |-> pm[k] > 0,
         add |-> pm[k] * PatternScore,
         ind |-> Indicator("{description} pattern detected",
                           Fallback_attack_patterns[k].description, <<>>, 0)]]

\* a scorer that counts a suspicious token from its first occurrence on
SuspiciousSteps_FromFirst(sc) ==
    [k \in 1..Len(suspicious_chars) |->
        [hit |-> sc[k] > 0,
         add |-> sc[k] * RepeatScore,
         ind |-> Indicator("Suspicious character '{char}' found {count} time(s)", "",
                           suspicious_chars[k], sc[k])]]

\* the steps of the loop over suspicious_chars
SuspiciousSteps(sc) ==
    [k \in 1..Len(suspicious_chars) |->
        [hit |-> sc[k] > 1,
         add |-> sc[k] * RepeatScore,
         ind |-> Indicator("Suspicious character '{char}' found {count} time(s)", "",
                           suspicious_chars[k], sc[k])]]

\* a scorer that takes an even number of quotes for the imbalance
QuoteStep_Even(quotes, text) ==
    [hit |-> quotes % 2 = 0,
     add |-> QuoteImbalanceScore,
     ind |-> Indicator(text, "", <<>>, 0)]

\* "Quote imbalance (very suspicious)": one of the two steps
QuoteStep(quotes, text) ==
    [hit |-> quotes % 2 = 1,
     add |-> QuoteImbalanceScore,
     ind |-> Indicator(text, "", <<>>, 0)]

\* "Length-based heuristics"
LengthStep(length) ==
    [hit |-> length > LongQueryLength,
     add |-> LongQueryScore,
     ind |-> Indicator("Unusually long query", "", <<>>, 0)]

\* "Function call patterns"
FunctionCallStep(function_calls) ==
    [hit |-> function_calls > FunctionCallLimit,
     add |-> function_calls * FunctionCallScore,
     ind |-> Indicator("Multiple function calls ({function_calls}) detected", "",
                       <<>>, function_calls)]

\* the steps of analyze_query on a non-empty str, in the order of the code
StepsOf(query, query_lower) ==
    KeywordSteps(KeywordCounts(query_lower))
    \o PatternSteps(PatternMatches(query_lower))
    \o SuspiciousSteps(SuspiciousCounts(query))
    \o << QuoteStep(CharCount(query, "'"), "Unbalanced single quotes detected"),
          QuoteStep(CharCount(query, "\""), "Unbalanced double quotes detected"),
          LengthStep(Len(query)),
          FunctionCallStep(FindallCount(Compile("\\w+\\s*\\("), query_lower, NoFlags)) >>

AnalyzeSteps(query) == StepsOf(query, Lower(query))

\* what each step adds to risk_score: its amount when its condition held
Adds(xs) == [k \in 1..Len(xs) |-> IF xs[k].hit THEN xs[k].add ELSE 0]

\* a scorer that puts each indicator in front of the list
ResultOf_Reversed(hits) ==
    [risk_score |-> SumSeq([k \in 1..Len(hits) |-> hits[k].add]),
     indicators |-> [k \in 1..Len(hits) |-> hits[Len(hits) + 1 - k].ind]]

\* the risk score and the indicators that the steps whose condition held add
\* up to
ResultOf(hits) ==
    [risk_score |-> SumSeq([k \in 1..Len(hits) |-> hits[k].add]),
     indicators |-> [k \in 1..Len(hits) |-> hits[k].ind]]

\* FallbackSQLDetector.analyze_query
analyze_query(query) ==
    IF ~Truthy(query) \/ ~IsStr(query)
    THEN [risk_score |-> 0, indicators |-> <<>>]
    ELSE ResultOf(Hits(AnalyzeSteps(query.val)))
\* ------------------------------------------------------------------------
\* EnhancedSQLInjectionDetector.enhanced_feature_extraction

\* sql_keywords, in insertion order
sql_keywords == <<
    [keyword |-> <<"d","r","o","p">>, weight |-> 5],
    [keyword |-> <<"e","x","e","c">>, weight |-> 5],
    [keyword |-> <<"e","x","e","c","u","t","e">>, weight |-> 5],
    [keyword |-> <<"i","n","f","o","r","m","a","t","i","o","n","_","s","c","h","e","m","a">>, weight |-> 5],
    [keyword |-> <<"l","o","a","d","_","f","i","l","e">>, weight |-> 5],
    [keyword |-> <<"i","n","t","o"," ","o","u","t","f","i","l","e">>, weight |-> 5],
    [keyword |-> <<"c","m","d","s","h","e","l","l">>, weight |-> 5],
    [keyword |-> <<"x","p","_","c","m","d","s","h","e","l","l">>, weight |-> 5],
    [keyword |-> <<"u","n","i","o","n">>, weight |-> 4],
    [keyword |-> <<"d","e","l","e","t","e">>, weight |-> 4],
    [keyword |-> <<"s","y","s","o","b","j","e","c","t","s">>, weight |-> 4],
    [keyword |-> <<"s","y","s","c","o","l","u","m","n","s">>, weight |-> 4],
    [keyword |-> <<"w","a","i","t","f","o","r">>, weight |-> 4],
    [keyword |-> <<"b","e","n","c","h","m","a","r","k">>, weight |-> 4],
    [keyword |-> <<"p","g","_","s","l","e","e","p">>, weight |-> 4],
    [keyword |-> <<"s","p","_">>, weight |-> 4],
    [keyword |-> <<"d","e","c","l","a","r","e">>, weight |-> 3],
    [keyword |-> <<"c","a","s","t">>, weight |-> 3],
    [keyword |-> <<"c","o","n","v","e","r","t">>, weight |-> 3],
    [keyword |-> <<"c","o","n","c","a","t">>, weight |-> 3],
    [keyword |-> <<"m","y","s","q","l">>, weight |-> 3],
    [keyword |-> <<"v","e","r","s","i","o","n">>, weight |-> 3],
    [keyword |-> <<"u","s","e","r">>, weight |-> 3],
    [keyword |-> <<"d","a","t","a","b","a","s","e">>, weight |-> 3],
    [keyword |-> <<"s","e","l","e","c","t">>, weight |-> 2],
    [keyword |-> <<"i","n","s","e","r","t">>, weight |-> 2],
    [keyword |-> <<"u","p","d","a","t","e">>, weight |-> 2],
    [keyword |-> <<"c","r","e","a","t","e">>, weight |-> 2],
    [keyword |-> <<"a","l","t","e","r">>, weight |-> 2],
    [keyword |-> <<"s","u","b","s","t","r","i","n","g">>, weight |-> 2],
    [keyword |-> <<"a","s","c","i","i">>, weight |-> 2],
    [keyword |-> <<"c","h","a","r">>, weight |-> 2],
    [keyword |-> <<"w","h","e","r","e">>, weight |-> 1],
    [keyword |-> <<"a","n","d">>, weight |-> 1],
    [keyword |-> <<"f","r","o","m">>, weight |-> 1],
    [keyword |-> <<"o","r","d","e","r">>, weight |-> 1],
    [keyword |-> <<"g","r","o","u","p">>, weight |-> 1],
    [keyword |-> <<"h","a","v","i","n","g">>, weight |-> 1],
    [keyword |-> <<"j","o","i","n">>, weight |-> 1],
    [keyword |-> <<"i","n","n","e","r">>, weight |-> 1],
    [keyword |-> <<"l","e","f","t">>, weight |-> 1],
    [keyword |-> <<"r","i","g","h","t">>, weight |-> 1]
  >>

\* attack_patterns, in insertion order
attack_patterns == <<
    [pattern |-> "(\\bor\\b|\\band\\b)\\s*\\d+\\s*=\\s*\\d+", weight |-> 5],
    [pattern |-> "union\\s+select", weight |-> 5],
    [pattern |-> "drop\\s+table", weight |-> 5],
    [pattern |-> "exec\\s*\\(", weight |-> 4],
    [pattern |-> "%[0-9a-f]{2}", weight |-> 2],
    [pattern |-> "0x[0-9a-f]+", weight |-> 3],
    [pattern |-> "--\\s*$", weight |-> 2],
    [pattern |-> "/\\*.*?\\*/", weight |-> 2],
    [pattern |-> "@@\\w+", weight |-> 3],
    [pattern |-> "waitfor\\s+delay", weight |-> 4],
    [pattern |-> "benchmark\\s*\\(", weight |-> 4],
    [pattern |-> "pg_sleep\\s*\\(", weight |-> 4],
    [pattern |-> "information_schema", weight |-> 5],
    [pattern |-> "char\\s*\\(\\s*\\d+", weight |-> 3],
    [pattern |-> "ascii\\s*\\(", weight |-> 2],
    [pattern |-> "substring\\s*\\(", weight |-> 2],
    [pattern |-> "openrowset\\s*\\(", weight |-> 5],
    [pattern |-> "bulk\\s+insert", weight |-> 5],
    [pattern |-> "script\\s*>", weight |-> 3],
    [pattern |-> "<\\s*script", weight |-> 3],
    [pattern |-> "javascript\\s*:", weight |-> 3],
    [pattern |-> "current_user", weight |-> 2],
    [pattern |-> "session_user", weight |-> 2],
    [pattern |-> "system_user", weight |-> 2],
    [pattern |-> "host_name\\s*\\(", weight |-> 2],
    [pattern |-> "db_name\\s*\\(", weight |-> 2],
    [pattern |-> "@@version", weight |-> 4],
    [pattern |-> "@@servername", weight |-> 3],
    [pattern |-> "load_file\\s*\\(", weight |-> 5],
    [pattern |-> "into\\s+outfile", weight |-> 5],
    [pattern |-> "load\\s+data\\s+infile", weight |-> 5],
    [pattern |-> "grant\\s+", weight |-> 3],
    [pattern |-> "revoke\\s+", weight |-> 3],
    [pattern |-> "shutdown", weight |-> 5],
    [pattern |-> "kill\\s+\\d+", weight |-> 4]
  >>

\* the characters counted by char_features, after len(text)
counted_chars == <<"'", "\"", "(", ")", "[", "]", "{", "}", ";", ",", "=", "<", ">", "!", "?",
                   "&", "|", "%", "*", "+", "-", "/", "\\", "_", "$", "@", "#", "^", "~">>

\* the length of every feature vector
FeatureCount == 154

\* the real number n / d in thousandths
Milli(n, d) == (1000 * n) \div d

\* round(1000 * log2(k)) for k = 1..64: np.log2 in thousandths
Log2Milli == <<
    0, 1000, 1585, 2000, 2322, 2585, 2807, 3000,
    3170, 3322, 3459, 3585, 3700, 3807, 3907, 4000,
    4087, 4170, 4248, 4322, 4392, 4459, 4524, 4585,
    4644, 4700, 4755, 4807, 4858, 4907, 4954, 5000,
    5044, 5087, 5129, 5170, 5209, 5248, 5285, 5322,
    5358, 5392, 5426, 5459, 5492, 5524, 5555, 5585,
    5615, 5644, 5672, 5700, 5728, 5755, 5781, 5807,
    5833, 5858, 5883, 5907, 5931, 5954, 5977, 6000  >>

\* "CATEGORY 1: Weighted SQL Keywords"
KeywordFeatures(text_lower) ==
    [k \in 1..Len(sql_keywords) |->
        FindallCount(WordPattern(sql_keywords[k].keyword), text_lower, NoFlags)
            * sql_keywords[k].weight]

\* "CATEGORY 2: Attack Pattern Detection"
PatternFeatures(text_lower) ==
    [k \in 1..Len(attack_patterns) |->
        FindallCount(Compile(attack_patterns[k].pattern), text_lower, IGNORECASE)
            * attack_patterns[k].weight]

\* "CATEGORY 3: Character-Level Analysis"
char_features(text) ==
    <<Len(text)>> \o [k \in 1..Len(counted_chars) |-> CharCount(text, counted_chars[k])]

RECURSIVE Nesting(_, _, _, _)
\* "Nested parentheses depth": the loop over the characters from position i
\* on, with the running counter and the maximum so far
Nesting(text, i, current_nesting, max_nesting) ==
    IF i > Len(text) THEN max_nesting
    ELSE IF text[i] = "("
         THEN Nesting(text, i + 1, current_nesting + 1,
                      IF current_nesting + 1 > max_nesting THEN current_nesting + 1 ELSE max_nesting)
         ELSE IF text[i] = ")"
              THEN Nesting(text, i + 1, IF current_nesting - 1 > 0 THEN current_nesting - 1 ELSE 0,
                           max_nesting)
              ELSE Nesting(text, i + 1, current_nesting, max_nesting)

\* "String entropy": -sum(p * log2(p)) over the character frequencies of
\* text.lower(), which is log2(n) - sum(count * log2(count)) / n; a character
\* that occurs count times adds log2(count) at each of its positions
Entropy(text) ==
    IF Len(text) > 0
    THEN LET low == Lower(text)
             n == Len(text)
         IN  (n * Log2Milli[n] - SumSeq([i \in 1..n |-> Log2Milli[CharCount(low, low[i])]])) \div n
    ELSE 0

\* the positions where a word of text.split() starts
WordStarts(text) == {i \in 1..Len(text) : ~isspace(text[i]) /\ (i = 1 \/ isspace(text[i - 1]))}

\* the length of the word that starts at i
WordLen(text, i) == Min({j \in i..Len(text) : isspace(text[j])} \cup {Len(text) + 1}) - i

\* sum(len(word) for word in text.split())
WordChars(text) == Cardinality({i \in 1..Len(text) : ~isspace(text[i])})

\* sum(1 for c in text if c.isalpha()) and the like: the number of
\* characters of text in each of the four classes
ClassCounts(text) ==
    [alpha   |-> Cardinality({i \in 1..Len(text) : isalpha(text[i])}),
     digit   |-> Cardinality({i \in 1..Len(text) : isdigit(text[i])}),
     space   |-> Cardinality({i \in 1..Len(text) : isspace(text[i])}),
     special |-> Cardinality({i \in 1..Len(text) : ~isalnum(text[i]) /\ ~isspace(text[i])})]

\* "CATEGORY 9: Character Frequency Analysis"
Ratios(counts, length) ==
    IF length > 0
    THEN << Milli(counts.alpha, length), Milli(counts.digit, length),
            Milli(counts.space, length), Milli(counts.special, length) >>
    ELSE <<0, 0, 0, 0>>

\* a density computed with the integer division
KeywordDensity_Floor(total_keywords, nwords) ==
    IF nwords > 0 THEN 1000 * (total_keywords \div nwords) ELSE 0

\* "Keyword density": total_keywords / len(text.split()) if there are words
KeywordDensity(total_keywords, nwords) ==
    IF nwords > 0 THEN Milli(total_keywords, nwords) ELSE 0

\* an extraction that flags an even number of quotes
QuoteParity_Even(count) == (count + 1) % 2

\* "CATEGORY 4: Quote Balance Analysis": 1 for an odd number of quotes
QuoteParity(count) == count % 2

\* the feature vector the loop body builds for one text, before it is
\* padded and cut
RawFeatureVector(text) ==
    LET text_lower == Lower(text)
        kf == KeywordFeatures(text_lower)
        single_quote_count == CharCount(text, "'")
        double_quote_count == CharCount(text, "\"")
        url_encoded == FindallCount(Compile("%[0-9a-fA-F]{2}"), text, NoFlags)
        hex_sequences == FindallCount(Compile("0x[0-9a-fA-F]+"), text_lower, NoFlags)
        sql_comments == FindallCount(Compile("--.*$"), text, MULTILINE)
        block_comments == FindallCount(Compile("/\\*.*?\\*/"), text, DOTALL)
        function_calls == FindallCount(Compile("\\w+\\s*\\("), text_lower, NoFlags)
        total_keywords == SumSeq([k \in 1..Len(sql_keywords) |->
                              FindallCount(WordPattern(sql_keywords[k].keyword), text_lower, NoFlags)])
        words == WordStarts(text)
        nwords == Cardinality(words)
    IN  kf
        \o PatternFeatures(text_lower)
        \o char_features(text)
        \o <<QuoteParity(single_quote_count), QuoteParity(double_quote_count)>>
        \o <<url_encoded, hex_sequences>>
        \o <<sql_comments, block_comments>>
        \o <<Nesting(text, 1, 0, 0)>>
        \o <<Entropy(text)>>
        \o Ratios(ClassCounts(text), Len(text))
        \o <<function_calls>>
        \o << KeywordDensity(total_keywords, nwords) >>
        \o << IF nwords > 0 THEN Milli(WordChars(text), nwords) ELSE 0,
              IF nwords > 0 THEN Max({WordLen(text, i) : i \in words}) ELSE 0 >>

\* an extraction without the padding loop
PadFeatures_None(feature_vector) == feature_vector

\* "Ensure exactly 154 features": while len(feature_vector) < 154: append(0)
PadFeatures(feature_vector) ==
    IF Len(feature_vector) < FeatureCount
    THEN feature_vector \o [k \in 1..(FeatureCount - Len(feature_vector)) |-> 0]
    ELSE feature_vector

\* feature_vector[:154]
CutFeatures(feature_vector) ==
    SubSeq(feature_vector, 1, IF Len(feature_vector) < FeatureCount THEN Len(feature_vector) ELSE FeatureCount)

\* one row of the result: the vector of one text
FeatureRow(text) == CutFeatures(PadFeatures(RawFeatureVector(text)))

\* EnhancedSQLInjectionDetector.enhanced_feature_extraction: texts is a str
\* or a list of str, the result has one row per text
enhanced_feature_extraction(texts) ==
    LET list == IF IsStr(texts) THEN <<texts.val>> ELSE texts.val
    IN  [k \in 1..Len(list) |-> FeatureRow(list[k])]

\* ------------------------------------------------------------------------
\* EnhancedSQLInjectionDetector

\* an object without the attribute
PyAbsent == [type |-> "absent", val |-> <<>>]

\* a float, in hundredths
PyFloat(hundredths) == [type |-> "float", val |-> <<hundredths>>]

\* an artifact exposing predict; n_features is the length of the feature
\* vectors it was trained on and accepts
EnsembleModel(n_features) == [type |-> "EnsembleModel", val |-> <<>>, n_features |-> n_features]

\* the truth value of an attribute of the detector
AttrTruthy(v) == IF v.type \in {"str", "NoneType", "int", "list"} THEN Truthy(v) ELSE TRUE

\* model_data.get('accuracy', 0.87)
DefaultAccuracy == 87

\* the fields of the detector after the first lines of __init__
NewDetector == [model_loaded |-> FALSE, ensemble_model |-> PyNone, model_accuracy |-> PyAbsent]

\* what _load_trained_model finds at model_path: no file, a file that
\* pickle.load cannot read, or the object pickle.load returns
NoFile == [exists |-> FALSE, loads |-> FALSE, data |-> PyNone]

CorruptFile == [exists |-> TRUE, loads |-> FALSE, data |-> PyNone]

PickleOf(model_data) == [exists |-> TRUE, loads |-> TRUE, data |-> model_data]

\* a dict with the given keys
ModelData(keys, ensemble, accuracy) ==
    [type |-> "dict", val |-> <<>>, keys |-> keys, ensemble |-> ensemble, accuracy |-> accuracy]

\* f"{self.model_accuracy:.1%}" raises for a value that is not a number
FormatsAsPercent(v) == v.type \in {"float", "int"}

\* EnhancedSQLInjectionDetector._load_trained_model: the fields of self
\* after the call and what it logged.  An exception leaves the assignments
\* made before it in place.
load_trained_model(self, file) ==
    IF ~file.exists
    THEN [self |-> self, log |-> "warning: Model file not found"]
    ELSE IF ~file.loads \/ file.data.type # "dict" \/ "ensemble" \notin file.data.keys
         THEN [self |-> self, log |-> "error: Failed to load trained model"]
         ELSE LET loaded == [model_loaded |-> TRUE,
                             ensemble_model |-> file.data.ensemble,
                             model_accuracy |-> IF "accuracy" \in file.data.keys
                                                THEN file.data.accuracy
                                                ELSE PyFloat(DefaultAccuracy)]
              IN  IF FormatsAsPercent(loaded.model_accuracy)
                  THEN [self |-> loaded, log |-> "info: Trained model loaded successfully"]
                  ELSE [self |-> loaded, log |-> "error: Failed to load trained model"]

\* what the artifact does when asked on one call: it raises, or it returns
\* a label: 0 or 1 as the ensemble of the training script does, or another
\* number, as an artifact with more classes does (the adapter calls predict
\* on whatever object the pickle holds); "not asked" when the call does not
\* reach it
Answers == {"raise", "0", "1", "2"}

NotAsked == "not asked"

Label(ans) == CASE ans = "1" -> 1 [] ans = "2" -> 2 [] OTHER -> 0

\* self.ensemble_model.predict(features)[0]: an artifact raises on vectors of
\* another length than it accepts, and otherwise does what ans says
ArtifactPredict(model, features, ans) ==
    IF Len(features[1]) # model.n_features \/ ans = "raise"
    THEN [raised |-> TRUE, label |-> 0]
    ELSE [raised |-> FALSE, label |-> Label(ans)]

\* a detector whose threshold is one higher
threshold_Raised == 15 + 1

\* "Threshold tuned to simulate 87%+ accuracy"
threshold == 15

\* the confidence of a model verdict before the boost, by label
MaliciousBase == 95

SafeBase == 85

\* the cap of a boosted model confidence
ModelConfidenceCap == 99

\* risk_score / 50.0 in hundredths is risk_score * 2
FallbackStep == 2

\* the floor of the confidence of a benign fallback verdict
BenignFloor == 50

\* 1.0 in hundredths
One == 100

MinOf(a, b) == IF a <= b THEN a ELSE b

MaxOf(a, b) == IF a >= b THEN a ELSE b

\* a fast path that tags its verdict as the fallback does
ValidationResult_FallbackTag(query) ==
    [query |-> query, prediction |-> "SAFE", is_malicious |-> FALSE, risk_score |-> 0,
     confidence |-> One, indicators |-> <<>>, method |-> "fallback_patterns"]

\* the return value of the validation fast path
ValidationResult(query) ==
    [query |-> query, prediction |-> "SAFE", is_malicious |-> FALSE, risk_score |-> 0,
     confidence |-> One, indicators |-> <<>>, method |-> "validation"]

\* a confidence boost without the cap
ModelConfidence_Uncapped(ml_prediction, risk_score) ==
    (IF ml_prediction = 1 THEN MaliciousBase ELSE SafeBase) + risk_score

\* a boost that is capped on its own, at 0.04, instead of the sum at 0.99
ModelConfidence_BoostCap(ml_prediction, risk_score) ==
    (IF ml_prediction = 1 THEN MaliciousBase ELSE SafeBase) + MinOf(risk_score, 4)

\* "Enhanced confidence calculation"
ModelConfidence(ml_prediction, risk_score) ==
    LET confidence == IF ml_prediction = 1 THEN MaliciousBase ELSE SafeBase
    IN  IF risk_score > 0 THEN MinOf(confidence + risk_score, ModelConfidenceCap) ELSE confidence

\* a model path that reports no indicators of its own instead of the scorer's
ModelResult_OwnIndicators(self, query, ml_prediction, fallback_result) ==
    [query |-> query,
     prediction |-> IF ml_prediction = 1 THEN "MALICIOUS" ELSE "SAFE",
     is_malicious |-> (ml_prediction # 0),
     risk_score |-> fallback_result.risk_score,
     confidence |-> ModelConfidence(ml_prediction, fallback_result.risk_score),
     indicators |-> <<>>,
     method |-> "ml_model",
     model_accuracy |-> self.model_accuracy]

\* the result built from the label of the model
ModelResult(self, query, ml_prediction, fallback_result) ==
    [query |-> query,
     prediction |-> IF ml_prediction = 1 THEN "MALICIOUS" ELSE "SAFE",
     is_malicious |-> (ml_prediction # 0),
     risk_score |-> fallback_result.risk_score,
     confidence |-> ModelConfidence(ml_prediction, fallback_result.risk_score),
     indicators |-> fallback_result.indicators,
     method |-> "ml_model",
     model_accuracy |-> self.model_accuracy]

\* a benign confidence that falls twice as fast and meets the floor
FallbackConfidence_Steep(is_malicious, risk_score) ==
    IF is_malicious THEN MinOf(risk_score * FallbackStep, One)
    ELSE MaxOf(One - risk_score * 2 * FallbackStep, BenignFloor)

\* the confidence of a fallback verdict
FallbackConfidence(is_malicious, risk_score) ==
    IF is_malicious THEN MinOf(risk_score * FallbackStep, One)
    ELSE MaxOf(One - risk_score * FallbackStep, BenignFloor)

\* "Use fallback pattern-based detection"
FallbackResult(query, fallback_result) ==
    LET risk_score == fallback_result.risk_score
        is_malicious == risk_score >= threshold
    IN  [query |-> query,
         prediction |-> IF is_malicious THEN "MALICIOUS" ELSE "SAFE",
         is_malicious |-> is_malicious,
         risk_score |-> risk_score,
         confidence |-> FallbackConfidence(is_malicious, risk_score),
         indicators |-> fallback_result.indicators,
         method |-> "fallback_patterns"]

\* logger.info(f"... {result['prediction']} (confidence: ..., risk: ...)")
LogLine(text, result) ==
    [level |-> "info", text |-> text, prediction |-> result.prediction,
     confidence |-> result.confidence, risk_score |-> result.risk_score]

\* logger.error(f"ML model prediction failed: {e}")
ErrorLine(text) == [level |-> "error", text |-> text]

\* the strings on which the detector is called in the specification Spec
DetectorStrings == {
    PyStr(<<>>),
    PyStr(<<"h","e","l","l","o">>),
    PyStr(<<"o","r"," ","1","=","1">>),
    PyStr(<<"u","n","i","o","n"," ","s","e","l","e","c","t">>),
    PyStr(<<"d","r","o","p"," ","c","a","s","t">>),
    PyStr(<<"d","r","o","p"," ","u","n","i","o","n">>),
    PyStr(<<"'">>),
    PyStr(<<"'","'","\"">>),
    PyStr(<<"u","s","e","r","1","2","3","'"," ","O","R"," ","1","=","1"," ","-","-">>),
    PyStr(<<"a","d","m","i","n","'",";"," ","D","R","O","P"," ","T","A","B","L","E"," ","u","s","e","r","s",";"," ","-","-">>),
    PyStr(<<"d","r","o","p"," ","d","r","o","p"," ","d","r","o","p"," ","d","r","o","p"," ","d","r","o","p">>),
    PyStr(<<"d","r","o","p"," ","d","r","o","p"," ","d","r","o","p"," ","d","r","o","p"," ","d","r","o","p"," ","s","e","l","e","c","t">>) }

\* the values that are not strings
NonStrings == {PyNone, PyInt(<<"0">>), PyInt(<<"7">>), PyList(<<>>), PyList(<<<<"a">>>>)}

DetectorQueries == DetectorStrings \cup NonStrings

\* analyze_query and enhanced_feature_extraction([query]) on the queries of
\* Spec
AnalysisOf == [query \in DetectorQueries |-> analyze_query(query)]

FeaturesOf == [query \in DetectorStrings |-> enhanced_feature_extraction(PyList(<<query.val>>))]

\* the two functions are pure: a behaviour of Spec evaluates them once, when
\* it starts, and its predict calls read the values from memo
Memo == [analysis |-> AnalysisOf, features |-> FeaturesOf]

\* a behaviour without predict calls keeps no values
NoMemo == [analysis |-> <<>>, features |-> <<>>]

VARIABLES
    pc,              \* "load": __init__ is about to call _load_trained_model; "ready"
    model_loaded,    \* self.model_loaded
    ensemble_model,  \* self.ensemble_model
    model_accuracy,  \* self.model_accuracy
    load_log,        \* what _load_trained_model logged
    calls,           \* how many predict calls were made
    last,            \* the last call: its arguments and what it returned
    mark,            \* an earlier call, remembered to compare a later one with
    arg,             \* the argument of a function that is called on its own
    res,             \* what the function returned for arg, once it was called
    prev,            \* an earlier res, remembered to compare a later one with
    memo,            \* what analyze_query and enhanced_feature_extraction return on
                     \* the queries of a behaviour, computed when it starts
    threads,         \* the predict calls that run at the same time: for each
                     \* thread, how far its call is and the call's local variables
    job_store,       \* analysis_service.job_store: the job records by job id
    requests         \* the /analyze requests: how far each handler is, and its
                     \* local variables

vars == <<pc, model_loaded, ensemble_model, model_accuracy, load_log, calls, last, mark,
          arg, res, prev, memo, threads, job_store, requests>>

\* self.fallback_detector.analyze_query(query)
fallback_detector_analyze_query(query) == memo.analysis[query]

\* self.enhanced_feature_extraction([query])
self_enhanced_feature_extraction(query) == memo.features[query]

\* `if self.model_loaded and self.ensemble_model:`
EntersModelPath(self) == self.model_loaded /\ AttrTruthy(self.ensemble_model)

\* a call that logs a line on its result and returns it
Returns(logs, text, result) ==
    [raised |-> FALSE, ret |-> result, logs |-> Append(logs, LogLine(text, result))]

\* the try block was not entered
NotEntered == [entered |-> FALSE, raised |-> FALSE]

\* the try block after the artifact was asked: its exception leaves the
\* block, its label is made into the result that the block returns
TryBody(self, query, ml, fallback_result) ==
    IF ml.raised THEN [entered |-> TRUE, raised |-> TRUE]
    ELSE [entered |-> TRUE, raised |-> FALSE,
          out |-> Returns(<<>>, "ML prediction",
                          ModelResult(self, query, ml.label, fallback_result))]

\* the try block
TryModel(self, query, ans) ==
    TryBody(self, query,
            ArtifactPredict(self.ensemble_model, self_enhanced_feature_extraction(query), ans),
            fallback_detector_analyze_query(query))

\* the code after the try statement: "Use fallback pattern-based detection"
Fallback(query, logs) ==
    Returns(logs, "Fallback prediction",
            FallbackResult(query, fallback_detector_analyze_query(query)))

\* a predict without the except clause: the exception of the artifact
\* reaches the caller
AfterTry_Propagates(query, attempt) ==
    IF attempt.raised THEN [raised |-> TRUE, ret |-> PyNone, logs |-> <<>>]
    ELSE IF attempt.entered THEN attempt.out
    ELSE Fallback(query, <<>>)

\* `except Exception as e:` logs the exception and lets the call go on to
\* the code after the try statement
AfterTry(query, attempt) ==
    IF attempt.entered /\ ~attempt.raised THEN attempt.out
    ELSE Fallback(query, IF attempt.raised
                         THEN <<ErrorLine("ML model prediction failed")>> ELSE <<>>)

\* EnhancedSQLInjectionDetector.predict: whether the call raises, what it
\* returns and the lines it logs
predict(self, query, ans) ==
    IF ~Truthy(query) \/ ~IsStr(query)
    THEN [raised |-> FALSE, ret |-> ValidationResult(query), logs |-> <<>>]
    ELSE AfterTry(query, IF EntersModelPath(self) THEN TryModel(self, query, ans)
                         ELSE NotEntered)

\* ------------------------------------------------------------------------
\* The detector as a state machine: it is constructed once (the module
\* creates the global sql_injection_detector), then predict is called

Self == [model_loaded |-> model_loaded, ensemble_model |-> ensemble_model,
         model_accuracy |-> model_accuracy]

NoCall == [op |-> "none"]

\* the number of predict calls in a behaviour
MaxCalls == 3

\* what may lie at model_path when the process starts
Files == {
    NoFile,
    CorruptFile,
    PickleOf(PyList(<<>>)),
    PickleOf(ModelData({"accuracy"}, PyNone, PyFloat(91))),
    PickleOf(ModelData({"ensemble", "accuracy"}, EnsembleModel(FeatureCount), PyFloat(91))),
    PickleOf(ModelData({"ensemble"}, EnsembleModel(FeatureCount - 4), PyNone)),
    PickleOf(ModelData({"ensemble", "accuracy"}, EnsembleModel(FeatureCount), PyNone)),
    PickleOf(ModelData({"ensemble", "accuracy"}, PyNone, PyFloat(91))) }

\* the detector right after the first lines of __init__, nothing called yet
Constructed ==
    /\ model_loaded = NewDetector.model_loaded
    /\ ensemble_model = NewDetector.ensemble_model
    /\ model_accuracy = NewDetector.model_accuracy
    /\ load_log = "none"
    /\ calls = 0
    /\ last = NoCall
    /\ mark = NoCall
    /\ res = NoCall
    /\ prev = NoCall
    /\ threads = <<>>
    /\ job_store = <<>>
    /\ requests = <<>>

Init ==
    /\ pc = "load"
    /\ arg = PyNone
    /\ memo = Memo
    /\ Constructed

\* __init__ calls self._load_trained_model(), once
LoadTrainedModel(file) ==
    /\ pc = "load"
    /\ LET after == load_trained_model(Self, file)
       IN  /\ model_loaded' = after.self.model_loaded
           /\ ensemble_model' = after.self.ensemble_model
           /\ model_accuracy' = after.self.model_accuracy
           /\ load_log' = after.log
    /\ pc' = "ready"
    /\ UNCHANGED <<calls, last, mark, arg, res, prev, memo, threads, job_store, requests>>

\* the answers the artifact may give on a call with this query
AnswersFor(self, query) ==
    IF Truthy(query) /\ IsStr(query) /\ EntersModelPath(self) THEN Answers ELSE {NotAsked}

\* a predict that gives up the artifact after it raised once
Predict_Downgrades(query, ans) ==
    /\ pc = "ready"
    /\ calls < MaxCalls
    /\ ans \in AnswersFor(Self, query)
    /\ calls' = calls + 1
    /\ last' = [op |-> "predict", at |-> calls', self |-> Self, query |-> query,
                ans |-> ans, out |-> predict(Self, query, ans)]
    /\ \/ mark' = mark
       \/ mark = NoCall /\ mark' = last'
    /\ model_loaded' = (model_loaded /\ ans # "raise")
    /\ UNCHANGED <<pc, ensemble_model, model_accuracy, load_log, arg, res, prev, memo, threads, job_store, requests>>

\* a predict that answers from what the call before it left behind
Predict_Stale(query, ans) ==
    /\ pc = "ready"
    /\ calls < MaxCalls
    /\ ans \in AnswersFor(Self, query)
    /\ calls' = calls + 1
    /\ last' = [op |-> "predict", at |-> calls', self |-> Self, query |-> query,
                ans |-> ans,
                out |-> predict(Self, IF last = NoCall THEN query ELSE last.query, ans)]
    /\ \/ mark' = mark
       \/ mark = NoCall /\ mark' = last'
    /\ UNCHANGED <<pc, model_loaded, ensemble_model, model_accuracy, load_log, arg, res, prev, memo, threads, job_store, requests>>

\* a caller calls sql_injection_detector.predict(query); predict assigns no
\* attribute of the detector.  last records the call and its number, mark
\* may keep one earlier call.
Predict(query, ans) ==
    /\ pc = "ready"
    /\ calls < MaxCalls
    /\ ans \in AnswersFor(Self, query)
    /\ calls' = calls + 1
    /\ last' = [op |-> "predict", at |-> calls', self |-> Self, query |-> query,
                ans |-> ans, out |-> predict(Self, query, ans)]
    /\ \/ mark' = mark
       \/ mark = NoCall /\ mark' = last'
    /\ UNCHANGED <<pc, model_loaded, ensemble_model, model_accuracy, load_log, arg, res, prev, memo, threads, job_store, requests>>

Next ==
    \/ \E file \in Files : LoadTrainedModel(file)
    \/ \E query \in DetectorQueries, ans \in Answers \cup {NotAsked} : Predict(query, ans)

Spec == Init /\ [][Next]_vars


\* ------------------------------------------------------------------------
\* FallbackSQLDetector.analyze_query called on its own, on a query and then
\* on the query with one single quote taken out

\* the pieces the queries are put together from
Fragments == << <<"'">>, <<"\"">>, <<"d","r">>, <<"o","p">>, <<"-">> >>

\* the number of pieces in a query
MaxFrags == 4

\* the queries: every concatenation of at most MaxFrags pieces
ScorerQueries ==
    UNION {{PyStr(Flatten([k \in 1..n |-> Fragments[f[k]]])) :
                f \in [1..n -> 1..Len(Fragments)]} : n \in 0..MaxFrags}

\* what each step of analyze_query adds to risk_score, in the order of the
\* code; nothing when the guard at the top returns
StepAdds(query) ==
    IF ~Truthy(query) \/ ~IsStr(query) THEN <<>>
    ELSE Adds(AnalyzeSteps(query.val))

\* queries at the two limits of analyze_query: 200 and 201 characters, 3 and
\* 4 function calls; and a query of 201 characters on which a step of each
\* kind adds to the score
BoundaryQueries == {
    PyStr(<<"'">> \o [i \in 1..192 |-> IF i % 40 = 0 THEN "(" ELSE "a"]
                 \o <<";", ";", "d", "r", "o", "p", "-", "-">>),
    PyStr([i \in 1..200 |-> IF i % 40 = 0 THEN " " ELSE "a"]),
    PyStr([i \in 1..201 |-> IF i % 40 = 0 THEN " " ELSE "a"]),
    PyStr(<<"a","(","a","(","a","(">>),
    PyStr(<<"a","(","a","(","a","(","a","(">>) }

InitScorer ==
    /\ pc = "scorer"
    /\ arg \in ScorerQueries \cup BoundaryQueries
    /\ memo = NoMemo
    /\ Constructed

\* fallback_detector.analyze_query(arg)
AnalyzeQuery ==
    /\ pc \in {"scorer", "append"}
    /\ res = NoCall
    /\ res' = [op |-> "analyze_query", query |-> arg, ret |-> analyze_query(arg),
               adds |-> StepAdds(arg)]
    /\ UNCHANGED <<pc, model_loaded, ensemble_model, model_accuracy, load_log, calls, last,
                   mark, arg, prev, memo, threads, job_store, requests>>

\* the caller takes the single quote at position i out of a query that
\* holds an odd number of them, to ask again
RemoveQuote(i) ==
    /\ pc = "scorer"
    /\ res # NoCall /\ prev = NoCall
    /\ arg.val[i] = "'"
    /\ CharCount(arg.val, "'") % 2 = 1
    /\ prev' = res
    /\ arg' = PyStr(SubSeq(arg.val, 1, i - 1) \o SubSeq(arg.val, i + 1, Len(arg.val)))
    /\ res' = NoCall
    /\ UNCHANGED <<pc, model_loaded, ensemble_model, model_accuracy, load_log, calls, last,
                   mark, memo, threads, job_store, requests>>

NextScorer ==
    \/ AnalyzeQuery
    \/ \E i \in 1..Len(arg.val) : RemoveQuote(i)

SpecScorer == InitScorer /\ [][NextScorer]_vars

\* ------------------------------------------------------------------------
\* FallbackSQLDetector.analyze_query called on a benign query and then on the
\* query with a keyword of the table appended

\* the pieces the benign queries are put together from
Parts == << <<"-","-">>, <<" ">>, <<"a">>, <<"(">> >>

\* the number of pieces in a benign query
MaxParts == 3

\* the queries: every concatenation of at most MaxParts pieces
AppendQueries ==
    UNION {{PyStr(Flatten([k \in 1..n |-> Parts[f[k]]])) :
                f \in [1..n -> 1..Len(Parts)]} : n \in 0..MaxParts}

InitAppend ==
    /\ pc = "append"
    /\ arg \in AppendQueries
    /\ memo = NoMemo
    /\ Constructed

\* the caller appends the k-th keyword of self.sql_keywords to a query that
\* scored below the threshold, to ask again
AppendKeyword(k) ==
    /\ pc = "append"
    /\ res # NoCall /\ prev = NoCall
    /\ res.ret.risk_score < threshold
    /\ prev' = res
    /\ arg' = PyStr(arg.val \o Fallback_sql_keywords[k].keyword)
    /\ res' = NoCall
    /\ UNCHANGED <<pc, model_loaded, ensemble_model, model_accuracy, load_log, calls, last,
                   mark, memo, threads, job_store, requests>>

NextAppend ==
    \/ AnalyzeQuery
    \/ \E k \in 1..Len(Fallback_sql_keywords) : AppendKeyword(k)

SpecAppend == InitAppend /\ [][NextAppend]_vars

\* ------------------------------------------------------------------------
\* EnhancedSQLInjectionDetector.enhanced_feature_extraction called on its own

\* the texts
FeatureStrings == {
    <<>>,
    <<" ", "\t", " ">>,
    <<"S","E","L","E","C","T"," ","*"," ","F","R","O","M"," ","u","s","e","r","s"," ","W","H","E","R","E"," ","i","d"," ","="," ","1">>,
    <<"1","'"," ","U","N","I","O","N"," ","S","E","L","E","C","T"," ","c","h","a","r","(","4","9",")",","," ","@","@","v","e","r","s","i","o","n"," ","/","*","x","*","/"," ","F","R","O","M"," ","a","d","m","i","n"," ","-","-"," ","%","2","7"," ","0","x","1","f">> }

\* the number of texts in a list
MaxTexts == 3

\* the arguments: a str, or a list of at most MaxTexts str
FeatureTexts ==
    {PyStr(t) : t \in FeatureStrings}
    \cup UNION {{PyList(ts) : ts \in [1..n -> FeatureStrings]} : n \in 0..MaxTexts}

InitFeatures ==
    /\ pc = "features"
    /\ arg \in FeatureTexts
    /\ memo = NoMemo
    /\ Constructed

\* self.enhanced_feature_extraction(arg)
ExtractFeatures ==
    /\ pc \in {"features", "copy"}
    /\ res = NoCall
    /\ res' = [op |-> "enhanced_feature_extraction", texts |-> arg,
               ret |-> enhanced_feature_extraction(arg)]
    /\ UNCHANGED <<pc, model_loaded, ensemble_model, model_accuracy, load_log, calls, last,
                   mark, arg, prev, memo, threads, job_store, requests>>

NextFeatures == ExtractFeatures

SpecFeatures == InitFeatures /\ [][NextFeatures]_vars

\* ------------------------------------------------------------------------
\* The enhanced_feature_extraction of the training pipeline
\* (src/model/hackathon_sql_detector.py), from which the detector's was
\* copied, called on the same list of texts as the detector's

\* attack_patterns of the training pipeline: the table of the detector with
\* two more entries after 'bulk\s+insert'
Training_attack_patterns ==
    SubSeq(attack_patterns, 1, 18)
    \o << [pattern |-> "sp_password", weight |-> 4],
          [pattern |-> "sp_helpdb", weight |-> 3] >>
    \o SubSeq(attack_patterns, 19, Len(attack_patterns))

\* "CATEGORY 2: Attack Pattern Detection" of the training pipeline
Training_PatternFeatures(text_lower) ==
    [k \in 1..Len(Training_attack_patterns) |->
        FindallCount(Compile(Training_attack_patterns[k].pattern), text_lower, IGNORECASE)
            * Training_attack_patterns[k].weight]

\* the feature vector of the training pipeline for one text: its statements
\* are those of the detector's loop body, with its own pattern table
Training_RawFeatureVector(raw, text_lower) ==
    SubSeq(raw, 1, Len(sql_keywords))
    \o Training_PatternFeatures(text_lower)
    \o SubSeq(raw, Len(sql_keywords) + Len(attack_patterns) + 1, Len(raw))

\* enhanced_feature_extraction of the training pipeline on a list of texts:
\* one padded and cut row per text; its last print reads features[0] and
\* raises IndexError on an empty list
Training_enhanced_feature_extraction(texts) ==
    [raised |-> texts.val = <<>>,
     ret |-> [k \in 1..Len(texts.val) |->
                CutFeatures(PadFeatures(
                    Training_RawFeatureVector(RawFeatureVector(texts.val[k]), Lower(texts.val[k]))))]]

\* the texts both functions are called on
CopyStrings == FeatureStrings \cup {
    <<"s","p","_","p","a","s","s","w","o","r","d">>,
    <<"s","h","u","t","d","o","w","n">>,
    <<"k","i","l","l"," ","9">> }

\* the arguments: the lists of at most two of the texts
CopyTexts ==
    {PyList(<<>>)} \cup {PyList(<<t>>) : t \in CopyStrings}
    \cup {PyList(<<t, u>>) : t, u \in CopyStrings}

InitCopy ==
    /\ pc = "copy"
    /\ arg \in CopyTexts
    /\ memo = NoMemo
    /\ Constructed

\* the training pipeline extracts the features of the texts the detector
\* was called on
TrainFeatures ==
    /\ pc = "copy"
    /\ res # NoCall /\ prev = NoCall
    /\ prev' = [op |-> "training", texts |-> arg,
                out |-> Training_enhanced_feature_extraction(arg)]
    /\ UNCHANGED <<pc, model_loaded, ensemble_model, model_accuracy, load_log, calls, last,
                   mark, arg, res, memo, threads, job_store, requests>>

NextCopy ==
    \/ ExtractFeatures
    \/ TrainFeatures

SpecCopy == InitCopy /\ [][NextCopy]_vars

\* ------------------------------------------------------------------------
\* Several predict calls on the one global detector at the same time: each
\* thread runs the statements of predict in order, and the statements of
\* different threads interleave in any way

\* the number of threads
MaxThreads == 2

\* the queries the threads call predict with
ThreadQueries == {
    PyStr(<<>>),
    PyStr(<<"h","e","l","l","o">>),
    PyStr(<<"a","d","m","i","n","'",";"," ","D","R","O","P"," ","T","A","B","L","E"," ","u","s","e","r","s",";"," ","-","-">>) }

\* a thread that has not called predict: at says how far the call is; query
\* is its argument, self the fields of the detector when the call began, ans
\* what the artifact did when the call asked it, ml_prediction,
\* fallback_result and logs the local variables and the lines logged so far,
\* out what the call returned
Idle == [at |-> "idle", query |-> PyNone, self |-> NewDetector, ans |-> NotAsked,
         ml_prediction |-> 0, fallback_result |-> [risk_score |-> 0, indicators |-> <<>>],
         logs |-> <<>>, out |-> NoCall]

InitThreads ==
    /\ pc = "load"
    /\ arg = PyNone
    /\ memo = Memo
    /\ model_loaded = NewDetector.model_loaded
    /\ ensemble_model = NewDetector.ensemble_model
    /\ model_accuracy = NewDetector.model_accuracy
    /\ load_log = "none"
    /\ calls = 0
    /\ last = NoCall /\ mark = NoCall /\ res = NoCall /\ prev = NoCall
    /\ threads = [t \in 1..MaxThreads |-> Idle]
    /\ job_store = <<>>
    /\ requests = <<>>

\* the detector's fields and everything else but threads stay as they are
DetectorUnchanged ==
    UNCHANGED <<pc, model_loaded, ensemble_model, model_accuracy, load_log, calls, last, mark,
                arg, res, prev, memo, job_store, requests>>

\* thread t calls predict(query): `if not query or not isinstance(query, str)`
\* returns at once
Call(t, query) ==
    /\ pc = "ready"
    /\ threads[t].at = "idle"
    /\ threads' = [threads EXCEPT ![t] =
            IF ~Truthy(query) \/ ~IsStr(query)
            THEN [@ EXCEPT !.at = "done", !.query = query, !.self = Self,
                           !.out = [raised |-> FALSE, ret |-> ValidationResult(query), logs |-> <<>>]]
            ELSE [@ EXCEPT !.at = "gate", !.query = query, !.self = Self]]
    /\ DetectorUnchanged

\* `if self.model_loaded and self.ensemble_model:`
Gate(t) ==
    /\ threads[t].at = "gate"
    /\ threads' = [threads EXCEPT ![t].at = IF EntersModelPath(Self) THEN "ask" ELSE "fallback"]
    /\ DetectorUnchanged

\* a predict that gives up the artifact for every thread once it raised
Ask_Downgrades(t, ans) ==
    /\ threads[t].at = "ask"
    /\ LET ml == ArtifactPredict(ensemble_model, memo.features[threads[t].query], ans)
       IN  /\ threads' = [threads EXCEPT ![t] =
                  IF ml.raised
                  THEN [@ EXCEPT !.at = "fallback", !.ans = ans,
                                 !.logs = <<ErrorLine("ML model prediction failed")>>]
                  ELSE [@ EXCEPT !.at = "analyze", !.ans = ans, !.ml_prediction = ml.label]]
           /\ model_loaded' = (model_loaded /\ ~ml.raised)
    /\ UNCHANGED <<pc, ensemble_model, model_accuracy, load_log, calls, last, mark,
                   arg, res, prev, memo, job_store, requests>>

\* features = self.enhanced_feature_extraction([query]) and
\* ml_prediction = self.ensemble_model.predict(features)[0]; an exception
\* goes to the except clause, which logs it
Ask(t, ans) ==
    /\ threads[t].at = "ask"
    /\ LET ml == ArtifactPredict(ensemble_model, memo.features[threads[t].query], ans)
       IN  threads' = [threads EXCEPT ![t] =
                  IF ml.raised
                  THEN [@ EXCEPT !.at = "fallback", !.ans = ans,
                                 !.logs = <<ErrorLine("ML model prediction failed")>>]
                  ELSE [@ EXCEPT !.at = "analyze", !.ans = ans, !.ml_prediction = ml.label]]
    /\ DetectorUnchanged

\* fallback_result = self.fallback_detector.analyze_query(query)
Analyze(t) ==
    /\ threads[t].at = "analyze"
    /\ threads' = [threads EXCEPT ![t].at = "result",
                                  ![t].fallback_result = memo.analysis[threads[t].query]]
    /\ DetectorUnchanged

\* the confidence, the result with self.model_accuracy, the log line and
\* `return result`
Result(t) ==
    /\ threads[t].at = "result"
    /\ threads' = [threads EXCEPT ![t].at = "done",
                                  ![t].out = Returns(<<>>, "ML prediction",
                                                 ModelResult(Self, threads[t].query,
                                                             threads[t].ml_prediction,
                                                             threads[t].fallback_result))]
    /\ DetectorUnchanged

\* the code after the try statement
FallbackPath(t) ==
    /\ threads[t].at = "fallback"
    /\ threads' = [threads EXCEPT ![t].at = "done",
                                  ![t].out = Returns(threads[t].logs, "Fallback prediction",
                                                 FallbackResult(threads[t].query,
                                                                memo.analysis[threads[t].query]))]
    /\ DetectorUnchanged

NextThreads ==
    \/ \E file \in Files : LoadTrainedModel(file)
    \/ \E t \in 1..MaxThreads, query \in ThreadQueries : Call(t, query)
    \/ \E t \in 1..MaxThreads : Gate(t)
    \/ \E t \in 1..MaxThreads, ans \in Answers : Ask(t, ans)
    \/ \E t \in 1..MaxThreads : Analyze(t)
    \/ \E t \in 1..MaxThreads : Result(t)
    \/ \E t \in 1..MaxThreads : FallbackPath(t)

SpecThreads == InitThreads /\ [][NextThreads]_vars

\* ------------------------------------------------------------------------
\* The analysis service (src/backend/app/services/analysis.py) and the
\* handlers of /analyze and /status/{job_id}
\* (src/backend/app/api/v1/routes.py).  The handler of /analyze awaits the
\* analysis, so the handlers of several requests interleave at that point.
\* A confidence is in hundredths.

\* the number of /analyze requests in a behaviour
MaxRequests == 2

\* "Map risk score to severity"
CriticalRisk == 50

HighRisk == 30

MediumRisk == 15

\* `if content_size > 1000000:`
LargeImage == 1000000

\* `if random.random() < 0.2:`
MetadataChance == 20

\* a mapping that gives MEDIUM only above 15
SeverityOf_Above(risk_score) ==
    IF risk_score >= CriticalRisk THEN "critical"
    ELSE IF risk_score >= HighRisk THEN "high"
    ELSE IF risk_score > MediumRisk THEN "medium"
    ELSE "low"

\* "Map risk score to severity"
SeverityOf(risk_score) ==
    IF risk_score >= CriticalRisk THEN "critical"
    ELSE IF risk_score >= HighRisk THEN "high"
    ELSE IF risk_score >= MediumRisk THEN "medium"
    ELSE "low"

\* ThreatDetection(attack_type=..., confidence=..., severity=..., description=...)
ThreatDetection(attack_type, confidence, severity, description) ==
    [attack_type |-> attack_type, confidence |-> confidence, severity |-> severity,
     description |-> description]

\* what random.random() and random.uniform draw, as hundredths of [0, 1)
Draws == {10, 60}

\* random.uniform(a, b) with the draw u
uniform(a, b, u) == a + ((b - a) * u) \div 100

\* detection_result['indicators'][:3]
TopThree(indicators) == SubSeq(indicators, 1, MinOf(3, Len(indicators)))

\* ['<script', 'javascript:', 'onerror', 'onload']
XssKeywords == {
    <<"<","s","c","r","i","p","t">>,
    <<"j","a","v","a","s","c","r","i","p","t",":">>,
    <<"o","n","e","r","r","o","r">>,
    <<"o","n","l","o","a","d">> }

\* AnalysisService._analyze_text_stub, given what predict(content) returned and
\* the draw of the XSS confidence
analyze_text_stub(detection_result, content, u) ==
    (IF detection_result.is_malicious
     THEN <<ThreatDetection("sql_injection", detection_result.confidence,
                            SeverityOf(detection_result.risk_score),
                            TopThree(detection_result.indicators))>>
     ELSE <<>>)
    \o (IF \E keyword \in XssKeywords : Contains(Lower(content), keyword)
        THEN <<ThreatDetection("xss", uniform(60, 90, u), "medium", <<>>)>>
        ELSE <<>>)

\* ['bit.ly', 'tinyurl.com', 'shortened.link']
suspicious_domains == {
    <<"b","i","t",".","l","y">>,
    <<"t","i","n","y","u","r","l",".","c","o","m">>,
    <<"s","h","o","r","t","e","n","e","d",".","l","i","n","k">> }

\* ['login', 'verify', 'suspend', 'update', 'secure']
phishing_keywords == {
    <<"l","o","g","i","n">>, <<"v","e","r","i","f","y">>, <<"s","u","s","p","e","n","d">>,
    <<"u","p","d","a","t","e">>, <<"s","e","c","u","r","e">> }

\* 'localhost' in content_lower or '127.0.0.1' in content or '192.168.' in content
TargetsInternal(content) ==
    \/ Contains(Lower(content), <<"l","o","c","a","l","h","o","s","t">>)
    \/ Contains(content, <<"1","2","7",".","0",".","0",".","1">>)
    \/ Contains(content, <<"1","9","2",".","1","6","8",".">>)

\* AnalysisService._analyze_url_stub, given the draws of its confidences
analyze_url_stub(content, u) ==
    (IF \E domain \in suspicious_domains : Contains(Lower(content), domain)
     THEN <<ThreatDetection("phishing", uniform(40, 70, u[1]), "medium", <<>>)>> ELSE <<>>)
    \o (IF \E keyword \in phishing_keywords : Contains(Lower(content), keyword)
        THEN <<ThreatDetection("phishing", uniform(60, 85, u[2]), "high", <<>>)>> ELSE <<>>)
    \o (IF TargetsInternal(content)
        THEN <<ThreatDetection("ssrf", uniform(70, 90, u[3]), "critical", <<>>)>> ELSE <<>>)

\* AnalysisService._analyze_image_stub, given len(content) and the draws
analyze_image_stub(content_size, u) ==
    (IF content_size > LargeImage
     THEN <<ThreatDetection("steganography", uniform(30, 60, u[1]), "medium", <<>>)>> ELSE <<>>)
    \o (IF u[2] < MetadataChance
        THEN <<ThreatDetection("suspicious_metadata", uniform(50, 80, u[3]), "low", <<>>)>>
        ELSE <<>>)

\* threat.severity for threat in threats
Severities(threats) == {threats[k].severity : k \in 1..Len(threats)}

\* a threat level taken from the first threat
calculate_threat_level_First(threats) ==
    IF threats = <<>> THEN "low" ELSE threats[1].severity

\* AnalysisService._calculate_threat_level
calculate_threat_level(threats) ==
    IF threats = <<>> THEN "low"
    ELSE IF "critical" \in Severities(threats) THEN "critical"
    ELSE IF "high" \in Severities(threats) THEN "high"
    ELSE IF "medium" \in Severities(threats) THEN "medium"
    ELSE "low"

\* AnalysisService._calculate_confidence_score: the average, cut to hundredths
calculate_confidence_score(threats) ==
    IF threats = <<>> THEN One
    ELSE MinOf(SumSeq([k \in 1..Len(threats) |-> threats[k].confidence]) \div Len(threats), One)

\* a request: for an image only the length of the content is kept, which is
\* all that the analysis reads of it
Request(input_type, content, content_length) ==
    [input_type |-> input_type, content |-> content, content_length |-> content_length]

TextRequest(chars) == Request("text", chars, Len(chars))

UrlRequest(chars) == Request("url", chars, Len(chars))

ImageRequest(content_length) == Request("image", <<>>, content_length)

\* the texts of the requests: they pass AnalysisRequest.validate_content
ServiceTexts == {
    <<"h","e","l","l","o">>,
    <<"o","n","l","o","a","d">>,
    <<"'">>,
    <<"a","d","m","i","n","'",";"," ","D","R","O","P"," ","T","A","B","L","E"," ","u","s","e","r","s",";"," ","-","-">>,
    <<"d","r","o","p"," ","d","r","o","p"," ","d","r","o","p"," ","d","r","o","p"," ","d","r","o","p">> }

ServiceUrls == {
    <<"h","t","t","p",":","/","/","b","i","t",".","l","y","/","l","o","g","i","n">>,
    <<"h","t","t","p",":","/","/","l","o","c","a","l","h","o","s","t">> }

ServiceRequests ==
    {TextRequest(chars) : chars \in ServiceTexts}
    \cup {UrlRequest(chars) : chars \in ServiceUrls}
    \cup {ImageRequest(LargeImage), ImageRequest(LargeImage + 1)}

\* analyze_query and enhanced_feature_extraction on the texts of the requests
ServiceMemo ==
    [analysis |-> [query \in {PyStr(chars) : chars \in ServiceTexts} |-> analyze_query(query)],
     features |-> [query \in {PyStr(chars) : chars \in ServiceTexts} |->
                       enhanced_feature_extraction(PyList(<<query.val>>))]]

\* the model files the detector of the service is constructed with
ServiceFiles == {
    NoFile,
    PickleOf(ModelData({"ensemble", "accuracy"}, EnsembleModel(FeatureCount), PyFloat(91))) }

\* no verdict: the analysis of a URL or an image does not call the detector
NoVerdict == [method |-> "none"]

\* AnalysisService.ai_analysis_stub: the verdict of the detector, for a text,
\* and the threats
ai_analysis_stub(self, request, ans, u) ==
    CASE request.input_type = "text" ->
            LET detection_result == predict(self, PyStr(request.content), ans).ret
            IN  [verdict |-> detection_result,
                 detected_threats |-> analyze_text_stub(detection_result, request.content, u[1])]
      [] request.input_type = "url" ->
            [verdict |-> NoVerdict, detected_threats |-> analyze_url_stub(request.content, u)]
      [] OTHER ->
            [verdict |-> NoVerdict,
             detected_threats |-> analyze_image_stub(request.content_length, u)]

\* AnalysisService.analyze_input: the AnalysisResult
AnalysisResult(request, detected_threats) ==
    [is_malicious |-> Len(detected_threats) > 0,
     threat_level |-> calculate_threat_level(detected_threats),
     confidence_score |-> calculate_confidence_score(detected_threats),
     detected_threats |-> detected_threats,
     analysis_metadata |-> [input_type |-> request.input_type,
                            content_length |-> request.content_length],
     honeypot_triggered |-> FALSE]

\* a request that has not arrived
NoRequest == [at |-> "idle"]

\* the answer the artifact gives in the analysis of this request
AnswersOf(self, request) ==
    IF request.input_type = "text" THEN AnswersFor(self, PyStr(request.content)) ELSE {NotAsked}

\* the draws that the analysis of this request does not make are 0
DrawsOf(request) ==
    {u \in [1..3 -> Draws \cup {0}] :
        CASE request.input_type = "text" ->
                /\ u[2] = 0 /\ u[3] = 0
                /\ u[1] # 0 <=> \E keyword \in XssKeywords : Contains(Lower(request.content), keyword)
          [] request.input_type = "url" ->
                /\ u[1] # 0 <=> \E domain \in suspicious_domains : Contains(Lower(request.content), domain)
                /\ u[2] # 0 <=> \E keyword \in phishing_keywords : Contains(Lower(request.content), keyword)
                /\ u[3] # 0 <=> TargetsInternal(request.content)
          [] OTHER ->
                /\ u[1] # 0 <=> request.content_length > LargeImage
                /\ u[2] # 0
                /\ u[3] # 0 <=> u[2] < MetadataChance}

InitService ==
    /\ pc = "load"
    /\ arg = PyNone
    /\ memo = ServiceMemo
    /\ model_loaded = NewDetector.model_loaded
    /\ ensemble_model = NewDetector.ensemble_model
    /\ model_accuracy = NewDetector.model_accuracy
    /\ load_log = "none"
    /\ calls = 0
    /\ last = NoCall /\ mark = NoCall /\ res = NoCall /\ prev = NoCall
    /\ threads = <<>>
    /\ job_store = <<>>
    /\ requests = [r \in 1..MaxRequests |-> NoRequest]

\* the detector's fields stay as they are
ServiceUnchanged ==
    UNCHANGED <<pc, model_loaded, ensemble_model, model_accuracy, load_log, calls, mark,
                arg, res, prev, memo, threads>>

\* AnalysisService.store_job: self.job_store[job_id] = job_data
store_job(store, job_id, job_data) ==
    [j \in DOMAIN store \cup {job_id} |-> IF j = job_id THEN job_data ELSE store[j]]

\* request r arrives: analyze_input up to the await of the analysis.  The job
\* id is new (generate_job_id); the record is stored with "processing"
ReceiveRequest(r, request) ==
    /\ pc = "ready"
    /\ requests[r].at = "idle"
    /\ job_store' = store_job(job_store, r,
                              [job_id |-> r, status |-> "processing", request |-> request])
    /\ requests' = [requests EXCEPT ![r] = [at |-> "analysing", job_id |-> r, request |-> request]]
    /\ last' = last
    /\ ServiceUnchanged

\* settings.HONEYPOT_ENABLED: os.getenv("HONEYPOT_ENABLED", "false"), the
\* default
HONEYPOT_ENABLED == FALSE

\* the analysis of request r returns: the record is updated to "completed"
\* with the result, the response is built, the honeypot is engaged for a
\* malicious input when it is enabled, and the handler returns the response
AnalysisReturns(r, ans, u) ==
    /\ requests[r].at = "analysing"
    /\ ans \in AnswersOf(Self, requests[r].request)
    /\ LET request == requests[r].request
           analysis == ai_analysis_stub(Self, request, ans, u)
           analysis_result == AnalysisResult(request, analysis.detected_threats)
           engaged == analysis_result.is_malicious /\ HONEYPOT_ENABLED
       IN  /\ u \in DrawsOf(request)
           /\ job_store' = store_job(job_store, requests[r].job_id,
                                     [job_store[requests[r].job_id] EXCEPT !.status = "completed"]
                                         @@ [completed_at |-> TRUE, result |-> analysis_result])
           /\ requests' = [requests EXCEPT ![r] =
                  [at |-> "returned", job_id |-> @.job_id, request |-> request,
                   verdict |-> analysis.verdict,
                   response |-> [job_id |-> @.job_id, status |-> "completed",
                                 result |-> [analysis_result EXCEPT !.honeypot_triggered = engaged],
                                 honeypot_redirect |-> engaged]]]
    /\ last' = last
    /\ ServiceUnchanged

\* job_data.update({"status": "failed", ...}) on the record of the job, if
\* there is one
MarkFailed(store, job_id) ==
    IF job_id \in DOMAIN store
    THEN store_job(store, job_id,
                   [status |-> "failed", completed_at |-> TRUE, error |-> TRUE] @@ store[job_id])
    ELSE store

\* the exceptions the analysis may end with: AnalysisService.analyze_input
\* logs and re-raises whatever is raised in it; the handler has a clause for
\* ValueError (a failed validation of the pydantic models is one) and a
\* clause for every other Exception
Raised == {"ValueError", "Exception"}

\* the analysis of request r raises: `except ValueError` answers 400,
\* `except Exception` marks the record as failed and answers 500
AnalysisRaises(r, exc) ==
    /\ requests[r].at = "analysing"
    /\ IF exc = "ValueError"
       THEN /\ job_store' = job_store
            /\ requests' = [requests EXCEPT ![r] = [@ EXCEPT !.at = "raised"] @@ [status_code |-> 400]]
       ELSE /\ job_store' = MarkFailed(job_store, requests[r].job_id)
            /\ requests' = [requests EXCEPT ![r] = [@ EXCEPT !.at = "raised"] @@ [status_code |-> 500]]
    /\ last' = last
    /\ ServiceUnchanged

\* progress_map.get(job_data["status"], 0.0), in hundredths
progress_map(status) ==
    CASE status = "pending" -> 0
      [] status = "processing" -> 50
      [] status \in {"completed", "failed"} -> 100
      [] OTHER -> 0

\* get_job_status(job_id): 404 for an unknown job, else the JobStatus
GetJobStatus(job_id) ==
    /\ pc = "ready"
    /\ last' = IF job_id \notin DOMAIN job_store
               THEN [op |-> "status", job_id |-> job_id, status_code |-> 404]
               ELSE [op |-> "status", job_id |-> job_id, status_code |-> 200,
                     status |-> job_store[job_id].status,
                     completed_at |-> "completed_at" \in DOMAIN job_store[job_id],
                     progress |-> progress_map(job_store[job_id].status)]
    /\ UNCHANGED <<job_store, requests>>
    /\ ServiceUnchanged

NextService ==
    \/ \E file \in ServiceFiles : LoadTrainedModel(file)
    \/ \E r \in 1..MaxRequests, request \in ServiceRequests : ReceiveRequest(r, request)
    \/ \E r \in 1..MaxRequests, ans \in Answers \cup {NotAsked}, u \in [1..3 -> Draws \cup {0}] :
          AnalysisReturns(r, ans, u)
    \/ \E r \in 1..MaxRequests, exc \in Raised : AnalysisRaises(r, exc)
    \/ \E job_id \in 1..MaxRequests : GetJobStatus(job_id)

SpecService == InitService /\ [][NextService]_vars

\* ------------------------------------------------------------------------
\* Properties of the detector (specification Spec)

\* the call was made with a non-empty string
OnQuery(call) == call # NoCall /\ Truthy(call.query) /\ IsStr(call.query)

\* the call was made with an empty string or with a value that is no string
OnInvalid(call) == call # NoCall /\ ~(Truthy(call.query) /\ IsStr(call.query))

\* the call asked the artifact and got an exception instead of a label
ArtifactRaised(call) ==
    /\ OnQuery(call) /\ EntersModelPath(call.self)
    /\ ArtifactPredict(call.self.ensemble_model, memo.features[call.query], call.ans).raised

\* the call asked the artifact and got a label
ArtifactAnswered(call) ==
    /\ OnQuery(call) /\ EntersModelPath(call.self)
    /\ ~ArtifactPredict(call.self.ensemble_model, memo.features[call.query], call.ans).raised

\* the call did not get a label: the adapter is unloaded or the artifact raised
HeuristicOnly(call) ==
    OnQuery(call) /\ (~EntersModelPath(call.self) \/ ArtifactRaised(call))

\* C2: predict returns a verdict and never raises to its caller, whatever the
\* query and whether the adapter is unloaded, loaded and answering, or loaded
\* and raising.
C2_NeverRaises ==
    last # NoCall =>
        /\ ~last.out.raised
        /\ last.out.ret.prediction \in {"SAFE", "MALICIOUS"}
        /\ last.out.ret.is_malicious \in BOOLEAN
        /\ last.out.ret.query = last.query

\* C2 witness: a call on which the loaded artifact raised has returned
C2_Witness ==
    /\ ArtifactRaised(last) /\ last.ans = "raise"
    /\ ~last.out.raised /\ last.out.ret.prediction = "MALICIOUS"

\* C3: on the heuristic-only path is_malicious holds exactly when the risk
\* score of analyze_query is at least 15, and the method is fallback_patterns.
C3_Threshold ==
    HeuristicOnly(last) =>
        /\ last.out.ret.risk_score = memo.analysis[last.query].risk_score
        /\ last.out.ret.is_malicious = (last.out.ret.risk_score >= 15)
        /\ last.out.ret.prediction = (IF last.out.ret.risk_score >= 15 THEN "MALICIOUS" ELSE "SAFE")
        /\ last.out.ret.method = "fallback_patterns"

\* C3 witness: a heuristic-only call with risk 14 was benign and a later one
\* with risk 15 was malicious
C3_Witness ==
    /\ HeuristicOnly(mark) /\ mark.out.ret.risk_score = 14 /\ ~mark.out.ret.is_malicious
    /\ HeuristicOnly(last) /\ last.out.ret.risk_score = 15 /\ last.out.ret.is_malicious

\* C4: the confidence of every verdict lies between 0.0 and 1.0 (0 and 100
\* hundredths), and a benign heuristic-only verdict has confidence >= 0.5.
C4_ConfidenceBounds ==
    last # NoCall =>
        /\ last.out.ret.confidence \in 0..100
        /\ (HeuristicOnly(last) /\ ~last.out.ret.is_malicious) => last.out.ret.confidence >= 50

\* C4 witness: a model-backed verdict whose boosted confidence was capped, and
\* then a benign heuristic-only verdict with confidence below 1.0
C4_Witness ==
    /\ ArtifactAnswered(mark) /\ mark.out.ret.risk_score > 50 /\ mark.out.ret.confidence = 99
    /\ HeuristicOnly(last) /\ ~last.out.ret.is_malicious /\ last.out.ret.confidence < 100

C6_PerCallFallback ==
    /\ ArtifactRaised(last) =>
        /\ last.out.ret = predict(NewDetector, last.query, NotAsked).ret
        /\ last.out.ret.method = "fallback_patterns"
    /\ last # NoCall =>
        /\ last.self.model_loaded = model_loaded
        /\ last.self.ensemble_model = ensemble_model
    /\ mark # NoCall => mark.self = Self
    /\ (ArtifactRaised(mark) /\ ArtifactAnswered(last)) => last.out.ret.method = "ml_model"

\* C6 witness: the artifact raised on one call and answered a later call on
\* the same query
C6_Witness ==
    /\ ArtifactRaised(mark) /\ mark.out.ret.method = "fallback_patterns"
    /\ ArtifactAnswered(last) /\ last.out.ret.method = "ml_model"
    /\ mark.query = last.query /\ mark.out.ret.risk_score > 0

\* C7 as stated: when the load attempt fails (no file, or an exception while
\* the artifact is read and unpacked), the adapter is unloaded from then on.
C7_FailedLoadIsUnloaded ==
    (pc = "ready" /\ load_log # "info: Trained model loaded successfully") => ~model_loaded

\* C8: the risk score and the indicators of a verdict on a non-empty query
\* are those of analyze_query(query), model-backed or not, whatever the label.
C8_IndicatorsFromHeuristic ==
    /\ OnQuery(last) =>
        /\ last.out.ret.risk_score = memo.analysis[last.query].risk_score
        /\ last.out.ret.indicators = memo.analysis[last.query].indicators
    /\ (OnQuery(mark) /\ OnQuery(last) /\ mark.query = last.query) =>
        /\ mark.out.ret.risk_score = last.out.ret.risk_score
        /\ mark.out.ret.indicators = last.out.ret.indicators

\* C8 witness: the same query got a model-backed verdict with label 0 and a
\* heuristic-only verdict, both with indicators
C8_Witness ==
    /\ ArtifactAnswered(mark) /\ mark.ans = "0" /\ mark.out.ret.method = "ml_model"
    /\ HeuristicOnly(last) /\ mark.query = last.query
    /\ Len(last.out.ret.indicators) > 1 /\ last.out.ret.is_malicious

TextsOf(texts) == IF IsStr(texts) THEN <<texts.val>> ELSE texts.val

\* row is vector with zeros after it up to 154 slots, or its first 154 slots
IsPaddedOrCut(row, vector) ==
    /\ Len(row) = 154
    /\ \A j \in 1..154 :
          row[j] = IF j <= Len(vector) THEN vector[j] ELSE 0

\* C1: enhanced_feature_extraction returns one row per text, and every row
\* has exactly 154 slots: the vector computed for the text, followed by zeros
\* when it is shorter and cut when it is longer.
C1_Always154 ==
    (pc = "features" /\ res # NoCall) =>
        /\ Len(res.ret) = Len(TextsOf(res.texts))
        /\ \A k \in 1..Len(res.ret) :
              IsPaddedOrCut(res.ret[k], RawFeatureVector(TextsOf(res.texts)[k]))

\* C1 witness: a list of three texts, the empty string among them, gave three
\* rows, one of them all zeros and one with zeros after its 123 computed slots
C1_Witness ==
    /\ pc = "features" /\ res # NoCall
    /\ res.texts.type = "list" /\ Len(res.ret) = 3
    /\ \E k \in 1..3 : res.texts.val[k] = <<>> /\ \A j \in 1..154 : res.ret[k][j] = 0
    /\ \E k \in 1..3 :
          /\ Len(res.texts.val[k]) > 50
          /\ res.ret[k][Len(sql_keywords) + Len(attack_patterns) + 1] = Len(res.texts.val[k])
          /\ res.ret[k][123] > 0 /\ res.ret[k][124] = 0 /\ res.ret[k][154] = 0

\* ------------------------------------------------------------------------
\* Properties of analyze_query (specification SpecScorer)

\* the steps whose count a single quote enters directly: the suspicious
\* token "'" and the single-quote imbalance
SingleQuoteSteps ==
    {Len(Fallback_sql_keywords) + Len(Fallback_attack_patterns) + 1,
     Len(Fallback_sql_keywords) + Len(Fallback_attack_patterns) + Len(suspicious_chars) + 1}

\* analyze_query ran on a query with an odd number of single quotes and then
\* on the query without one of them
QuoteRemoved == pc = "scorer" /\ prev # NoCall /\ res # NoCall

\* C10 as stated: the risk score of a query with an odd number of single
\* quotes is at least 15 above that of the query with one of them removed.
C10_Original ==
    QuoteRemoved => prev.ret.risk_score >= res.ret.risk_score + 15

\* C10: the single-quote imbalance step adds 15 to the query with the odd
\* count and nothing once a quote is removed, and the risk score is at least
\* 15 higher whenever the removal raises no other step (the text that closes
\* up around the removed quote may form a keyword, a pattern or a token anew).
C10_QuoteImbalance ==
    /\ (pc = "scorer" /\ res # NoCall) => res.ret.risk_score = SumSeq(res.adds)
    /\ QuoteRemoved =>
        LET steps == 1..Len(prev.adds)
            imbalance == Len(Fallback_sql_keywords) + Len(Fallback_attack_patterns)
                            + Len(suspicious_chars) + 1
        IN  /\ prev.adds[imbalance] = 15
            /\ res.adds = <<>> \/ res.adds[imbalance] = 0
            /\ (\A k \in steps \ SingleQuoteSteps :
                    res.adds = <<>> \/ res.adds[k] <= prev.adds[k])
                => prev.ret.risk_score >= res.ret.risk_score + 15

\* C10 witness: removing one of three single quotes lowered the risk score
\* by more than 15 while a double quote stayed unbalanced
C10_Witness ==
    /\ QuoteRemoved
    /\ CharCount(prev.query.val, "'") = 3
    /\ CharCount(prev.query.val, "\"") = 1
    /\ prev.ret.risk_score = res.ret.risk_score + 17

\* analyze_query ran on a benign query and then on the query with a keyword
\* of the table appended
KeywordAppended == pc = "append" /\ prev # NoCall /\ res # NoCall

\* C11: appending a keyword of the table to a benign query never lowers the
\* risk score, with every scoring step taken into account.
C11_AppendMonotone ==
    KeywordAppended => res.ret.risk_score >= prev.ret.risk_score

\* C12: enhanced_feature_extraction gives the empty string the row of 154
\* zeros, alone or among other texts: every count, both quote parities, the
\* nesting depth, the entropy, the four ratios, the keyword density and the
\* average and maximum word length are 0, and so is the padding.
C12_EmptyIsZero ==
    (pc = "features" /\ res # NoCall) =>
        /\ Len(res.ret) = Len(TextsOf(res.texts))
        /\ \A k \in 1..Len(res.ret) :
              TextsOf(res.texts)[k] = <<>> => res.ret[k] = [j \in 1..FeatureCount |-> 0]

\* C12 witness: the call on the empty string itself returned one row, of
\* zeros in each of its 154 slots
C12_Witness ==
    /\ pc = "features" /\ res # NoCall
    /\ res.texts = PyStr(<<>>)
    /\ Len(res.ret) = 1 /\ Len(res.ret[1]) = 154
    /\ \A j \in 1..154 : res.ret[1][j] = 0

\* ------------------------------------------------------------------------
\* Further properties of the detector (specification Spec)

\* C13: a model-backed verdict has confidence min(base + risk_score/100, 0.99)
\* with base 0.95 for the label 1 and 0.85 otherwise (in hundredths), so it is
\* at most 0.99 and at least the base, and of two model-backed verdicts with
\* the same label the one with the higher risk score has no lower
\* confidence; the method is "ml_model".
C13_ModelConfidence ==
    /\ ArtifactAnswered(last) =>
        LET base == IF Label(last.ans) = 1 THEN 95 ELSE 85
        IN  /\ last.out.ret.confidence = MinOf(base + memo.analysis[last.query].risk_score, 99)
            /\ last.out.ret.confidence <= 99
            /\ last.out.ret.confidence >= base
            /\ last.out.ret.method = "ml_model"
    /\ (ArtifactAnswered(mark) /\ ArtifactAnswered(last) /\ Label(mark.ans) = Label(last.ans)
            /\ mark.out.ret.risk_score <= last.out.ret.risk_score)
        => mark.out.ret.confidence <= last.out.ret.confidence

\* C13 witness: with the label 0, a verdict with risk 5 had confidence 0.90
\* and a later one with a risk above 14 had the capped 0.99
C13_Witness ==
    /\ ArtifactAnswered(mark) /\ mark.ans = "0"
    /\ mark.out.ret.risk_score = 5 /\ mark.out.ret.confidence = 90
    /\ ArtifactAnswered(last) /\ last.ans = "0"
    /\ last.out.ret.risk_score > 14 /\ last.out.ret.confidence = 99

DropTableQuery ==
    PyStr(<<"a","d","m","i","n","'",";"," ","D","R","O","P"," ","T","A","B","L","E"," ",
            "u","s","e","r","s",";"," ","-","-">>)

\* the indicators of a verdict, as a set
IndicatorSet(call) == {call.out.ret.indicators[k] : k \in 1..Len(call.out.ret.indicators)}

\* the verdict of the call reports the unbalanced single quotes and the
\* table-dropping pattern
ReportsQuoteAndDrop(call) ==
    /\ Indicator("Unbalanced single quotes detected", "", <<>>, 0) \in IndicatorSet(call)
    /\ Indicator("{description} pattern detected", "Table dropping", <<>>, 0) \in IndicatorSet(call)

Incompatible(model) == model.type = "EnsembleModel" /\ model.n_features # FeatureCount

\* C16: a detector that found an artifact incompatible with the 154-slot
\* vector is unloaded after construction, and no verdict is heuristic-only
\* through an exception that such an artifact raised on the call.
C16_IncompatibleIsUnloaded ==
    /\ (pc = "ready" /\ Incompatible(ensemble_model)) => ~model_loaded
    /\ (last # NoCall /\ Incompatible(last.self.ensemble_model)) => ~ArtifactRaised(last)

\* ------------------------------------------------------------------------
\* Further properties of enhanced_feature_extraction (specification
\* SpecFeatures)

\* C17: the vector has 30 keyword slots (0-29) and 35 pattern slots (30-64);
\* the character histogram starts at slot 65 with the length of the text, the
\* two quote parities follow it at slots 95 and 96, and after the 111 slots
\* of the layout every slot is zero.  Slot s is element s + 1 of the row.
C17_Layout ==
    (pc = "features" /\ res # NoCall) =>
        /\ Len(sql_keywords) = 30
        /\ Len(attack_patterns) = 35
        /\ \A k \in 1..Len(res.ret) :
              /\ res.ret[k][65 + 1] = Len(TextsOf(res.texts)[k])
              /\ res.ret[k][95 + 1] = CharCount(TextsOf(res.texts)[k], "'") % 2
              /\ res.ret[k][96 + 1] = CharCount(TextsOf(res.texts)[k], "\"") % 2
              /\ \A j \in (111 + 1)..154 : res.ret[k][j] = 0

\* ------------------------------------------------------------------------
\* Properties of concurrent predict calls (specification SpecThreads)

\* C18: while predict calls of several threads interleave, the detector's
\* model_loaded, ensemble_model and model_accuracy stay what they were when
\* each call began, and every call returns the verdict, and logs the lines,
\* that predict gives when it runs alone on the same query with the same
\* answer of the artifact.
C18_NoSharedWrites ==
    \A t \in DOMAIN threads :
        /\ threads[t].at # "idle" => threads[t].self = Self
        /\ threads[t].at = "done" =>
              threads[t].out = predict(threads[t].self, threads[t].query, threads[t].ans)

\* C18 witness: on a loaded detector one call has returned a model-backed
\* verdict while another, begun before it, fell back after the artifact
\* raised and has not returned yet
C18_Witness ==
    /\ DOMAIN threads = 1..MaxThreads
    /\ \E t, u \in DOMAIN threads :
          /\ threads[t].at = "done" /\ threads[t].out.ret.method = "ml_model"
          /\ threads[t].out.ret.risk_score = 42
          /\ threads[u].at = "fallback" /\ threads[u].ans = "raise"

\* ------------------------------------------------------------------------
\* Further properties of the detector (specification Spec)

\* the lines the call logged that describe the verdict it returned
VerdictLines(call) ==
    {k \in 1..Len(call.out.logs) :
        /\ call.out.logs[k].level = "info"
        /\ call.out.logs[k].prediction = call.out.ret.prediction
        /\ call.out.logs[k].risk_score = call.out.ret.risk_score
        /\ call.out.logs[k].confidence = call.out.ret.confidence}

\* C19: every predict call logs a record that describes the verdict it
\* returns, also a call that returns on the validation of its argument and a
\* call that falls back after the artifact raised.
C19_EveryCallLogs ==
    last # NoCall => VerdictLines(last) # {}

\* ------------------------------------------------------------------------
\* Further properties of analyze_query (specification SpecScorer)

\* the reference sum for a non-empty query and its lower-case form:
\* occurrences x weight for each keyword, 5 x matches for each pattern,
\* 2 x count for each suspicious token that occurs more than once, 15 for
\* an odd number of single quotes, 15 for an odd number of double quotes, 10
\* for more than 200 characters, 2 x function calls when there are more than 3
ReferenceScore(query, query_lower) ==
    SumSeq([k \in 1..Len(Fallback_sql_keywords) |->
                StrCount(query_lower, Fallback_sql_keywords[k].keyword)
                    * Fallback_sql_keywords[k].weight])
    + SumSeq([k \in 1..Len(Fallback_attack_patterns) |->
                5 * FindallCount(Compile(Fallback_attack_patterns[k].pattern), query_lower, IGNORECASE)])
    + SumSeq([k \in 1..8 |->
                IF StrCount(query, suspicious_chars[k]) > 1
                THEN 2 * StrCount(query, suspicious_chars[k]) ELSE 0])
    + (IF CharCount(query, "'") % 2 = 1 THEN 15 ELSE 0)
    + (IF CharCount(query, "\"") % 2 = 1 THEN 15 ELSE 0)
    + (IF Len(query) > 200 THEN 10 ELSE 0)
    + (IF FindallCount(Compile("\\w+\\s*\\("), query_lower, NoFlags) > 3
       THEN 2 * FindallCount(Compile("\\w+\\s*\\("), query_lower, NoFlags) ELSE 0)

\* C20: for every non-empty query the risk score of analyze_query is the
\* reference sum; it is never negative, and nothing caps it.
C20_ReferenceSum ==
    (pc = "scorer" /\ res # NoCall /\ res.query.val # <<>>) =>
        /\ res.ret.risk_score = ReferenceScore(res.query.val, Lower(res.query.val))
        /\ res.ret.risk_score >= 0

\* C20 witness: the query of 201 characters scored 10, for its length alone
C20_Witness ==
    /\ pc = "scorer" /\ res # NoCall
    /\ Len(res.query.val) = 201
    /\ res.ret.risk_score = 10
    /\ res.ret.indicators = <<Indicator("Unusually long query", "", <<>>, 0)>>

\* ------------------------------------------------------------------------
\* The indicators of analyze_query (specification SpecScorer)

\* the place of an indicator in the order of the checks, by its text
IndicatorRank(ind) ==
    CASE ind.fmt = "SQL keyword '{keyword}' found {count} time(s)" -> 1
      [] ind.fmt = "{description} pattern detected" -> 2
      [] ind.fmt = "Suspicious character '{char}' found {count} time(s)" -> 3
      [] ind.fmt = "Unbalanced single quotes detected" -> 4
      [] ind.fmt = "Unbalanced double quotes detected" -> 5
      [] ind.fmt = "Unusually long query" -> 6
      [] ind.fmt = "Multiple function calls ({function_calls}) detected" -> 7
      [] OTHER -> 0

\* the place of the k-th step of analyze_query in the order of the checks
StepRank(k) ==
    IF k <= Len(Fallback_sql_keywords) THEN 1
    ELSE IF k <= Len(Fallback_sql_keywords) + Len(Fallback_attack_patterns) THEN 2
    ELSE IF k <= Len(Fallback_sql_keywords) + Len(Fallback_attack_patterns) + Len(suspicious_chars)
         THEN 3
         ELSE k - (Len(Fallback_sql_keywords) + Len(Fallback_attack_patterns)
                    + Len(suspicious_chars)) + 3

\* the steps that added a positive amount, in the order of the code
PositiveSteps(adds) ==
    SelectSeq([k \in 1..Len(adds) |-> k], LAMBDA k : adds[k] > 0)

\* C21: the indicators of analyze_query stand in the order of the checks
\* (keywords, patterns, suspicious tokens, single quotes, double quotes,
\* length, function calls), and there is one indicator for each step that
\* added a positive amount to risk_score and none for any other step.
C21_IndicatorOrder ==
    (pc = "scorer" /\ res # NoCall /\ res.query.val # <<>>) =>
        /\ \A i, j \in 1..Len(res.ret.indicators) :
              i < j => /\ IndicatorRank(res.ret.indicators[i]) >= 1
                       /\ IndicatorRank(res.ret.indicators[i]) <= IndicatorRank(res.ret.indicators[j])
                       /\ IndicatorRank(res.ret.indicators[j]) >= 4
                            => IndicatorRank(res.ret.indicators[i]) < IndicatorRank(res.ret.indicators[j])
        /\ Len(res.ret.indicators) = Len(PositiveSteps(res.adds))
        /\ \A j \in 1..Len(res.ret.indicators) :
              IndicatorRank(res.ret.indicators[j]) = StepRank(PositiveSteps(res.adds)[j])

\* C21 witness: a query of 201 characters got six indicators, one of each
\* kind but the double quotes, in the order of the checks
C21_Witness ==
    /\ pc = "scorer" /\ res # NoCall
    /\ Len(res.ret.indicators) = 6
    /\ [j \in 1..6 |-> IndicatorRank(res.ret.indicators[j])] = <<1, 2, 3, 4, 6, 7>>
    /\ res.ret.risk_score = 52

\* ------------------------------------------------------------------------
\* The detector's feature extraction against the training pipeline's
\* (specification SpecCopy)

\* C22: on every list of texts the detector's enhanced_feature_extraction
\* and the training pipeline's return the same rows of 154 slots.
C22_FaithfulCopy ==
    (pc = "copy" /\ res # NoCall /\ prev # NoCall) =>
        /\ ~prev.out.raised
        /\ prev.out.ret = res.ret

\* ------------------------------------------------------------------------
\* The keyword density (specification SpecFeatures)

\* the slot of the keyword density: element 121 of the row, after the 42
\* keyword, 35 pattern, 30 character and 13 further slots
DensitySlot == Len(sql_keywords) + Len(attack_patterns) + Len(char_features(<<>>)) + 13 + 1

\* the sum of the keyword slots of a row: the weighted keyword hits
WeightedHits(row) == SumSeq([k \in 1..Len(sql_keywords) |-> row[k]])

\* the whole-word keyword occurrences a row records: each keyword slot
\* holds occurrences x weight
KeywordHits(row) == SumSeq([k \in 1..Len(sql_keywords) |-> row[k] \div sql_keywords[k].weight])

\* the number of whitespace-separated words of a text
WordCount(text) == Cardinality(WordStarts(text))

\* C23 as stated: the keyword density is the sum of the keyword slots
\* divided by the number of words, and 0 for a text without words.
C23_Original ==
    (pc = "features" /\ res # NoCall) =>
        \A k \in 1..Len(res.ret) :
            res.ret[k][DensitySlot] =
                IF WordCount(TextsOf(res.texts)[k]) > 0
                THEN Milli(WeightedHits(res.ret[k]), WordCount(TextsOf(res.texts)[k]))
                ELSE 0

\* C23: the keyword density is the number of whole-word keyword occurrences,
\* not weighted, divided by the number of words (in thousandths), and 0 for
\* a text without words.
C23_KeywordDensity ==
    (pc = "features" /\ res # NoCall) =>
        \A k \in 1..Len(res.ret) :
            res.ret[k][DensitySlot] =
                IF WordCount(TextsOf(res.texts)[k]) > 0
                THEN Milli(KeywordHits(res.ret[k]), WordCount(TextsOf(res.texts)[k]))
                ELSE 0

\* C23 witness: the text of 8 words with select, from and where once each
\* has the density 3/8, while its keyword slots add up to 4; a text of
\* white space alone, in the same list, has the density 0
C23_Witness ==
    /\ pc = "features" /\ res # NoCall /\ res.texts.type = "list" /\ Len(res.ret) = 2
    /\ WordCount(res.texts.val[1]) = 8
    /\ KeywordHits(res.ret[1]) = 3 /\ WeightedHits(res.ret[1]) = 4
    /\ res.ret[1][DensitySlot] = 375
    /\ Len(res.texts.val[2]) = 3 /\ WordCount(res.texts.val[2]) = 0
    /\ res.ret[2][DensitySlot] = 0

\* ------------------------------------------------------------------------
\* Job records and analysis results (specification SpecService)

\* the handler of request r returned its response
Returned(r) == requests[r].at = "returned"

\* C24: a request that stored a job record and ended leaves the record in a
\* terminal status: "completed" when the handler returned a response,
\* "failed" when it ended with an error, whatever the exception, the
\* validation errors answered with 400 included; no record of an ended
\* request is still "processing".
C24_TerminalStatus ==
    \A r \in DOMAIN requests :
        /\ Returned(r) => job_store[requests[r].job_id].status = "completed"
        /\ requests[r].at = "raised" => job_store[requests[r].job_id].status = "failed"

\* the places of the SQL_INJECTION threats in a list of threats
SqlThreats(threats) == {k \in 1..Len(threats) : threats[k].attack_type = "sql_injection"}

\* LOW < MEDIUM < HIGH < CRITICAL
SeverityRank(severity) ==
    CASE severity = "low" -> 1
      [] severity = "medium" -> 2
      [] severity = "high" -> 3
      [] severity = "critical" -> 4

\* C25: in the AnalysisResult of every request, is_malicious is true exactly
\* when detected_threats is not empty; threat_level is the highest severity
\* among the threats, LOW when there are none; and for a text a SQL_INJECTION
\* threat is present exactly when the verdict of the detector is malicious.
C25_ResultConsistent ==
    \A r \in DOMAIN requests :
        Returned(r) =>
            LET result == requests[r].response.result
                threats == result.detected_threats
            IN  /\ result = job_store[requests[r].job_id].result
                /\ result.is_malicious <=> threats # <<>>
                /\ threats = <<>> => result.threat_level = "low"
                /\ threats # <<>> =>
                      /\ \E k \in 1..Len(threats) : threats[k].severity = result.threat_level
                      /\ \A k \in 1..Len(threats) :
                            SeverityRank(threats[k].severity) <= SeverityRank(result.threat_level)
                /\ requests[r].request.input_type = "text" =>
                      (SqlThreats(threats) # {} <=> requests[r].verdict.is_malicious)

\* C25 witness: the text "onload", which the model calls malicious, has a LOW
\* SQL_INJECTION threat before a MEDIUM XSS threat and the level MEDIUM, while
\* the other request, "hello", has no threat, is not malicious and has the
\* level LOW
C25_Witness ==
    /\ DOMAIN requests = 1..MaxRequests
    /\ \E r, s \in DOMAIN requests :
          /\ Returned(r) /\ Returned(s)
          /\ requests[r].request.input_type = "text"
          /\ requests[r].verdict.is_malicious
          /\ Len(requests[r].response.result.detected_threats) = 2
          /\ requests[r].response.result.detected_threats[1].severity = "low"
          /\ requests[r].response.result.detected_threats[2].attack_type = "xss"
          /\ requests[r].response.result.threat_level = "medium"
          /\ requests[s].request.input_type = "text"
          /\ requests[s].response.result.detected_threats = <<>>
          /\ ~requests[s].response.result.is_malicious
          /\ requests[s].response.result.threat_level = "low"

\* C30: the severity of a SQL_INJECTION threat follows the risk score of the
\* verdict: CRITICAL from 50, HIGH from 30, MEDIUM from 15, LOW below 15.  A
\* verdict of the heuristic alone never gives LOW: a LOW SQL_INJECTION threat
\* comes from a malicious verdict of the model with a risk score below 15.
C30_SeverityFollowsRisk ==
    \A r \in DOMAIN requests :
        (Returned(r) /\ requests[r].request.input_type = "text") =>
            LET threats == requests[r].response.result.detected_threats
                verdict == requests[r].verdict
            IN  \A k \in SqlThreats(threats) :
                    /\ threats[k].severity = "critical" <=> verdict.risk_score >= 50
                    /\ threats[k].severity = "high" <=>
                           (verdict.risk_score >= 30 /\ verdict.risk_score < 50)
                    /\ threats[k].severity = "medium" <=>
                           (verdict.risk_score >= 15 /\ verdict.risk_score < 30)
                    /\ threats[k].severity = "low" <=> verdict.risk_score < 15
                    /\ verdict.method = "fallback_patterns" => threats[k].severity # "low"
                    /\ threats[k].severity = "low" =>
                           /\ verdict.method = "ml_model"
                           /\ verdict.is_malicious
                           /\ verdict.risk_score < 15

\* C30 witness: one request with a LOW SQL_INJECTION threat, from a malicious
\* verdict of the model with the risk score 0, and one with a MEDIUM threat
\* from the heuristic alone, with the risk score 15
C30_Witness ==
    /\ DOMAIN requests = 1..MaxRequests
    /\ \E r, s \in DOMAIN requests :
          /\ Returned(r) /\ Returned(s)
          /\ requests[r].verdict.method = "ml_model"
          /\ requests[r].verdict.risk_score = 0
          /\ SqlThreats(requests[r].response.result.detected_threats) = {1}
          /\ requests[r].response.result.detected_threats[1].severity = "low"
          /\ requests[s].verdict.method = "fallback_patterns"
          /\ requests[s].verdict.risk_score = 15
          /\ SqlThreats(requests[s].response.result.detected_threats) = {1}
          /\ requests[s].response.result.detected_threats[1].severity = "medium"

\* ------------------------------------------------------------------------
\* What the heuristic alone detects (specification Spec)

\* s has a match of union\s+select
MatchesUnionSelect(s) ==
    \E i \in Occurrences(s, <<"u","n","i","o","n">>) :
        \E j \in Occurrences(s, <<"s","e","l","e","c","t">>) :
            /\ j > i + 5
            /\ \A k \in (i + 5)..(j - 1) : isspace(s[k])

\* the call reports the pattern with this description
ReportsPattern(call, desc) ==
    \E k \in 1..Len(call.out.ret.indicators) :
        /\ call.out.ret.indicators[k].fmt = "{description} pattern detected"
        /\ call.out.ret.indicators[k].desc = desc

\* C26: in heuristic-only mode every query with a match of union, white
\* space, select (whatever the case) is classified MALICIOUS, and its
\* indicators include the one of the union pattern.
C26_UnionIsMalicious ==
    (HeuristicOnly(last) /\ MatchesUnionSelect(Lower(last.query.val))) =>
        /\ last.out.ret.is_malicious
        /\ last.out.ret.prediction = "MALICIOUS"
        /\ ReportsPattern(last, "Union-based attacks")

\* s has a match of (\bor\b|\band\b)\s*\d+\s*=\s*\d+ that begins with the
\* word at i, n characters long
TautologyAt(s, i, n) ==
    /\ ~IsWordAt(s, i - 1) /\ ~IsWordAt(s, i + n)
    /\ \E a \in (i + n)..Len(s), b \in (i + n)..Len(s), c \in (i + n)..Len(s) :
          /\ a < b /\ b < c
          /\ \A k \in (i + n)..(a - 1) : isspace(s[k])
          /\ isdigit(s[a])
          /\ \A k \in (a + 1)..(b - 1) :
                /\ isdigit(s[k]) \/ isspace(s[k])
                /\ \A m \in (k + 1)..(b - 1) : isspace(s[k]) => isspace(s[m])
          /\ s[b] = "="
          /\ \A k \in (b + 1)..(c - 1) : isspace(s[k])
          /\ isdigit(s[c])

\* s has a match of the first attack pattern
MatchesTautology(s) ==
    \/ \E i \in Occurrences(s, <<"o","r">>) : TautologyAt(s, i, 2)
    \/ \E i \in Occurrences(s, <<"a","n","d">>) : TautologyAt(s, i, 3)

\* C27: in heuristic-only mode every query with a tautology that matches the
\* first attack pattern (the word or / and, digits = digits, as in OR 1=1) is
\* classified MALICIOUS.
C27_TautologyIsMalicious ==
    (HeuristicOnly(last) /\ MatchesTautology(Lower(last.query.val))) =>
        /\ last.out.ret.is_malicious
        /\ last.out.ret.prediction = "MALICIOUS"

\* the query of the call has an odd number of single or of double quotes
OddQuotes(call) ==
    \/ CharCount(call.query.val, "'") % 2 = 1
    \/ CharCount(call.query.val, "\"") % 2 = 1

\* C28: in heuristic-only mode every query with an odd number of single
\* quotes, or of double quotes, is classified MALICIOUS: the 15 of the quote
\* imbalance alone reach the threshold, whatever else the query holds.
C28_OddQuotesMalicious ==
    (HeuristicOnly(last) /\ OddQuotes(last)) =>
        /\ last.out.ret.risk_score >= 15
        /\ last.out.ret.is_malicious
        /\ last.out.ret.prediction = "MALICIOUS"
        /\ last.out.ret.method = "fallback_patterns"

\* C28 witness: a heuristic-only call on a lone single quote, and a later one
\* on the query with two single quotes and one double quote, were both
\* malicious, while the artifact, asked in the second one, raised
C28_Witness ==
    /\ HeuristicOnly(mark) /\ mark.query.val = <<"'">>
    /\ mark.out.ret.risk_score = 15 /\ mark.out.ret.is_malicious
    /\ ArtifactRaised(last) /\ last.query.val = <<"'","'","\"">>
    /\ CharCount(last.query.val, "'") = 2
    /\ last.out.ret.risk_score = 19 /\ last.out.ret.is_malicious

\* C29: on the heuristic-only path a benign verdict (risk score 0..14) has
\* the confidence 1 - risk_score/50, above 0.7, so that the floor of 0.5 is
\* never the value; a malicious verdict has a confidence of at least 0.3,
\* which is 1.0 exactly when the risk score is 50 or more.
C29_FloorNeverBinds ==
    HeuristicOnly(last) =>
        IF last.out.ret.is_malicious
        THEN /\ last.out.ret.confidence >= 30
             /\ last.out.ret.confidence <= 100
             /\ last.out.ret.confidence = 100 <=> last.out.ret.risk_score >= 50
        ELSE /\ last.out.ret.risk_score \in 0..14
             /\ last.out.ret.confidence = 100 - 2 * last.out.ret.risk_score
             /\ last.out.ret.confidence > 70

\* C29 witness: a benign heuristic-only verdict with the risk score 14 and
\* the confidence 0.72, and a later malicious one with the risk score 50 and
\* the confidence 1.0
C29_Witness ==
    /\ HeuristicOnly(mark) /\ ~mark.out.ret.is_malicious
    /\ mark.out.ret.risk_score = 14 /\ mark.out.ret.confidence = 72
    /\ HeuristicOnly(last) /\ last.out.ret.is_malicious
    /\ last.out.ret.risk_score = 50 /\ last.out.ret.confidence = 100
====
